---- MODULE Spec2Model ----
(***************************************************************************)
(* A model of the self-indexing document engine of unfccc.etf:             *)
(*   - JSONCatalog   (src/src/unfccc/etf/json.py, lines 198-271)           *)
(*   - JSONTreeWalker / JSONTree (src/src/unfccc/etf/json.py, 20-192)      *)
(* Object identity (Python's id()) is an integer handle; a dict is a       *)
(* function whose DOMAIN is the set of keys that are present.              *)
(***************************************************************************)
EXTENDS Integers, Sequences, FiniteSets, TLC

\* ------------------------------------------------------------------ bounds
MaxItems == 2        \* objects offered to the catalog
MaxMutations == 1    \* in-place field changes of the items in one run
MaxNodes == 3        \* nodes of a document besides its root
MaxTop == 3          \* nodes in the top-level node list of a country document
MaxGroups == 2       \* groups of a template grid
MaxClones == 2       \* clone_grid_from_template calls in one run

\* --------------------------------------------------------- dict helpers
EmptyDict == [k \in {} |-> "None"]

\* d[k] = v
Put(d, k, v) == [x \in (DOMAIN d) \cup {k} |-> IF x = k THEN v ELSE d[x]]

\* del d[k]
Del(d, k) == [x \in (DOMAIN d) \ {k} |-> d[x]]

\* d.get(k, default)
Get(d, k, default) == IF k \in DOMAIN d THEN d[k] ELSE default

\* the elements of a list
Range(s) == {s[k] : k \in DOMAIN s}

\* the orders in which iterating a set can produce its elements
ListsOf(S) ==
  {s \in [1..Cardinality(S) -> S] : \A i, j \in DOMAIN s : i # j => s[i] # s[j]}

\* ------------------------------------------------------------- catalog
Items == 1..MaxItems

\* The attribute names the catalog is constructed with, and one it is not.
Indexes == {"uid", "parent_uid"}
Unconfigured == "name"

\* Field values: "None" is Python's None, the others are strings.
Values == {"None", "a"}

\* The objects as their owner built them (cf. tests/conftest.py: a node with an
\* explicit null field, nodes without the field); callers change them later.
NewItem(i) ==
  IF i = 1 THEN [a \in {"uid", "parent_uid"} |-> IF a = "uid" THEN "a" ELSE "None"]
  ELSE IF i = 2 THEN [a \in {"uid"} |-> "a"]
  ELSE [a \in {"uid", "parent_uid"} |-> IF a = "uid" THEN "None" ELSE "a"]

VARIABLES
  item,      \* item[i]: the live dict of object i (mutated in place by callers)
  cat,       \* the JSONCatalog: [items, values, indexes]
  registered,\* history: the objects whose last catalog call was index()
  snapshot,  \* history: snapshot[i] = item[i] as it was at i's last index() call
  nmut,      \* number of in-place mutations so far
  call       \* the last call, see NoCall

cvars == <<item, cat, registered, snapshot, nmut, call>>

\* The document beside the catalog (see the documents section below).
VARIABLES
  kind,      \* kind[n]: "root" | "dict" | "list" | "str"
  kids,      \* kids[n]: the values of container n, in order (node handles)
  fields,    \* fields[n]: the scalar fields of object n, a dict name -> value
  parents_,  \* JSONTreeWalker._parents: id(item) -> parent, a partial map
  wcall,     \* the last walker call: [op, node, path, kind, res]
  scall,     \* the last tree-surgery call, see NoSCall
  grid_index,  \* CountryData.grid_index, a JSONCatalog over 'node_uid'
  locate_cache \* the memo of functools.cache on JSONTree.locate: path -> result

\* the session state that only grid repair and locate touch
svars == <<grid_index, locate_cache>>
wvars == <<kind, kids, fields, parents_, wcall, scall, grid_index, locate_cache>>
vars ==
  <<item, cat, registered, snapshot, nmut, call,
    kind, kids, fields, parents_, wcall, scall, grid_index, locate_cache>>

\* JSONCatalog.__init__(indexes, data=None)
NewCatalog(indexes) ==
  [items |-> {}, values |-> EmptyDict, indexes |-> [a \in indexes |-> EmptyDict]]

\* the attributes of CountryData.variable_index and grid_index
VarIndexes == {"uid", "node_uid", "template_var_uid"}
GridIndexes == {"node_uid"}

\* a session that has no grid and has not called locate yet
NoSession ==
  /\ grid_index = NewCatalog(GridIndexes)
  /\ locate_cache = EmptyDict

\* JSONCatalog.clear
clear_nothing(c) == c

clear(c) ==
  [items |-> {}, values |-> EmptyDict,
   indexes |-> [a \in DOMAIN c.indexes |-> EmptyDict]]

discard_always_prune(index, value, object_id) == Del(index, value)

discard_keep_empty(index, value, object_id) ==
  Put(index, value, index[value] \ {object_id})

\* the bucket update of unindex for one attribute: discard, then prune
discard(index, value, object_id) ==
  LET object_ids == index[value] \ {object_id}
  IN IF object_ids = {} THEN Del(index, value) ELSE Put(index, value, object_ids)

\* JSONCatalog.unindex
unindex(c, object_id) ==
  IF object_id \notin c.items THEN c
  ELSE LET values == c.values[object_id]
       IN [items |-> c.items \ {object_id},
           values |-> Del(c.values, object_id),
           indexes |-> [a \in DOMAIN c.indexes |->
                          IF a \in DOMAIN values
                          THEN discard(c.indexes[a], values[a], object_id)
                          ELSE c.indexes[a]]]

index_no_unindex(c, it, object_id) ==
  LET present == {a \in DOMAIN c.indexes : a \in DOMAIN it}
      values == Get(c.values, object_id, EmptyDict)
  IN [items |-> c.items \cup {object_id},
      values |-> Put(c.values, object_id,
                     [a \in (DOMAIN values) \cup present |->
                        IF a \in present THEN it[a] ELSE values[a]]),
      indexes |-> [a \in DOMAIN c.indexes |->
                     IF a \in present
                     THEN Put(c.indexes[a], it[a],
                              Get(c.indexes[a], it[a], {}) \cup {object_id})
                     ELSE c.indexes[a]]]

index_absent_as_none(c, it, object_id) ==
  LET c1 == IF object_id \in c.items THEN unindex(c, object_id) ELSE c
      val(a) == Get(it, a, "None")
  IN [items |-> c1.items \cup {object_id},
      values |-> Put(c1.values, object_id, [a \in DOMAIN c1.indexes |-> val(a)]),
      indexes |-> [a \in DOMAIN c1.indexes |->
                     Put(c1.indexes[a], val(a),
                         Get(c1.indexes[a], val(a), {}) \cup {object_id})]]

\* JSONCatalog.index: `it` is the object's dict at the time of the call
index(c, it, object_id) ==
  LET c1 == IF object_id \in c.items THEN unindex(c, object_id) ELSE c
      \* item.get(attr, NOT_PRESENT) is not NOT_PRESENT
      present == {a \in DOMAIN c1.indexes : a \in DOMAIN it}
      values == Get(c1.values, object_id, EmptyDict)   \* setdefault
  IN [items |-> c1.items \cup {object_id},
      values |-> Put(c1.values, object_id,
                     [a \in (DOMAIN values) \cup present |->
                        IF a \in present THEN it[a] ELSE values[a]]),
      indexes |-> [a \in DOMAIN c1.indexes |->
                     IF a \in present
                     THEN Put(c1.indexes[a], it[a],
                              Get(c1.indexes[a], it[a], {}) \cup {object_id})
                     ELSE c1.indexes[a]]]

\* The loop of JSONCatalog.search from its k-th criterion on; `result` is
\* [none |-> TRUE] for Python's None, else [none |-> FALSE, ids |-> set].
RECURSIVE search_loop(_, _, _, _)
search_loop(c, criteria, k, result) ==
  IF k > Len(criteria)
  THEN IF result.none THEN [kind |-> "ok", ids |-> {}]
       ELSE IF result.ids \subseteq c.items
            THEN [kind |-> "ok", ids |-> result.ids]
            ELSE [kind |-> "KeyError", ids |-> {}]
  ELSE LET attr == criteria[k][1]
           value == criteria[k][2]
       IN IF attr \notin DOMAIN c.indexes
          THEN [kind |-> "KeyError", ids |-> {}]
          ELSE LET object_ids == Get(c.indexes[attr], value, {})
               IN IF object_ids = {}
                  THEN [kind |-> "ok", ids |-> {}]
                  ELSE LET r == IF result.none THEN object_ids
                                ELSE result.ids \cap object_ids
                       IN IF r = {}
                          THEN [kind |-> "ok", ids |-> {}]
                          ELSE search_loop(c, criteria, k + 1,
                                           [none |-> FALSE, ids |-> r])

search_first_only(c, criteria) ==
  search_loop(c, SubSeq(criteria, 1, 1), 1, [none |-> TRUE, ids |-> {}])

\* JSONCatalog.search(**criteria): the outcome and the set the result list is
\* built from; criteria is the sequence of <<attr, value>> keyword arguments.
search(c, criteria) ==
  search_loop(c, criteria, 1, [none |-> TRUE, ids |-> {}])

\* What search() can return: the list comprehension iterates a set, so the
\* order of the list is any order of that set.
search_results(c, criteria) ==
  LET s == search(c, criteria)
  IN {[kind |-> s.kind, res |-> l] : l \in ListsOf(s.ids)}

\* JSONCatalog.first: kind "None" is the implicit `return None`
first(c, criteria) ==
  {IF r.kind # "ok" THEN r
   ELSE IF Len(r.res) > 0 THEN [kind |-> "ok", res |-> <<r.res[1]>>]
   ELSE [kind |-> "None", res |-> <<>>] :
   r \in search_results(c, criteria)}

one_unchecked(c, criteria) ==
  {IF r.kind # "ok" THEN r
   ELSE IF Len(r.res) < 1 THEN [kind |-> "ValueError_none", res |-> <<>>]
   ELSE [kind |-> "ok", res |-> <<r.res[1]>>] :
   r \in search_results(c, criteria)}

\* JSONCatalog.one: the two ValueErrors are told apart by their message
one(c, criteria) ==
  {IF r.kind # "ok" THEN r
   ELSE IF Len(r.res) < 1 THEN [kind |-> "ValueError_none", res |-> <<>>]
   ELSE IF Len(r.res) > 1 THEN [kind |-> "ValueError_multiple", res |-> <<>>]
   ELSE [kind |-> "ok", res |-> <<r.res[1]>>] :
   r \in search_results(c, criteria)}

\* The keyword arguments of a query: constraints on distinct attribute names,
\* configured or not, in any order (at least one).
QueryAttrs == Indexes \cup {Unconfigured}
Criteria ==
  {cr \in UNION {[1..n -> QueryAttrs \X Values] : n \in 1..Cardinality(QueryAttrs)} :
     \A i, j \in DOMAIN cr : i # j => cr[i][1] # cr[j][1]}

\* call: op, the object (arg) or the number of constraints (arg); for index
\* and unindex whether the object was registered already (again) and the snapshot it was
\* registered with before the call (old); for a query whether it names an
\* unconfigured attribute (unk); how the call ended (kind), what it returned
\* (res) and whether it left the catalog and the objects as they were (same).
NoCall ==
  [op |-> "none", arg |-> 0, again |-> FALSE, old |-> EmptyDict, unk |-> FALSE,
   kind |-> "ok", res |-> <<>>, same |-> TRUE]

Unknown(cr) == \E k \in DOMAIN cr : cr[k][1] \notin Indexes

CatInit ==
  /\ item = [i \in Items |-> NewItem(i)]
  /\ cat = NewCatalog(Indexes)
  /\ registered = {}
  /\ snapshot = [i \in Items |-> EmptyDict]
  /\ nmut = 0
  /\ call = NoCall

\* no catalog call is made
CatIdle == CatInit

\* catalog.index(item i)
Index(i) ==
  /\ cat' = index(cat, item[i], i)
  /\ registered' = registered \cup {i}
  /\ snapshot' = [snapshot EXCEPT ![i] = item[i]]
  /\ UNCHANGED <<item, nmut>>
  /\ call' = [NoCall EXCEPT !.op = "index", !.arg = i,
                !.again = (i \in registered), !.old = snapshot[i],
                !.same = (cat' = cat /\ item' = item)]
  /\ UNCHANGED wvars

\* catalog.unindex(item i)
Unindex(i) ==
  /\ cat' = unindex(cat, i)
  /\ registered' = registered \ {i}
  /\ snapshot' = [snapshot EXCEPT ![i] = EmptyDict]
  /\ call' = [NoCall EXCEPT !.op = "unindex", !.arg = i,
                !.again = (i \in registered), !.old = snapshot[i]]
  /\ UNCHANGED <<item, nmut>>
  /\ UNCHANGED wvars

\* catalog.clear()
Clear ==
  /\ cat' = clear(cat)
  /\ registered' = {}
  /\ snapshot' = [i \in Items |-> EmptyDict]
  /\ call' = [NoCall EXCEPT !.op = "clear"]
  /\ UNCHANGED <<item, nmut>>
  /\ UNCHANGED wvars

\* a caller sets or deletes a field of item i; the catalog is not told
Mutate(i) ==
  /\ nmut < MaxMutations
  /\ \E a \in Indexes :
       \/ \E v \in Values :
            /\ Get(item[i], a, "NOT_PRESENT") # v
            /\ item' = [item EXCEPT ![i] = Put(item[i], a, v)]
       \/ /\ a \in DOMAIN item[i]
          /\ item' = [item EXCEPT ![i] = Del(item[i], a)]
  /\ nmut' = nmut + 1
  /\ call' = [NoCall EXCEPT !.op = "mutate", !.arg = i]
  /\ UNCHANGED <<cat, registered, snapshot>>
  /\ UNCHANGED wvars

\* catalog.search(**criteria)
Search ==
  /\ UNCHANGED <<item, cat, registered, snapshot, nmut>>
  /\ \E cr \in Criteria : \E r \in search_results(cat, cr) :
       call' = [NoCall EXCEPT !.op = "search", !.arg = Len(cr),
                  !.unk = Unknown(cr), !.kind = r.kind, !.res = r.res,
                  !.same = (cat' = cat /\ item' = item)]
  /\ UNCHANGED wvars

\* catalog.first(**criteria)
First ==
  /\ UNCHANGED <<item, cat, registered, snapshot, nmut>>
  /\ \E cr \in Criteria : \E r \in first(cat, cr) :
       call' = [NoCall EXCEPT !.op = "first", !.arg = Len(cr),
                  !.unk = Unknown(cr), !.kind = r.kind, !.res = r.res,
                  !.same = (cat' = cat /\ item' = item)]
  /\ UNCHANGED wvars

\* catalog.one(**criteria)
One ==
  /\ UNCHANGED <<item, cat, registered, snapshot, nmut>>
  /\ \E cr \in Criteria : \E r \in one(cat, cr) :
       call' = [NoCall EXCEPT !.op = "one", !.arg = Len(cr),
                  !.unk = Unknown(cr), !.kind = r.kind, !.res = r.res,
                  !.same = (cat' = cat /\ item' = item)]
  /\ UNCHANGED wvars


\* ---------------------------------------------------------- documents
\* A document is an arena of nodes 0..MaxNodes: node 0 is the JSONTreeRoot,
\* the others are dicts, lists or scalars (strings) held by exactly one
\* container.  Only forward edges are stored, as in the parsed JSON.
Root == 0
Nodes == 0..MaxNodes

\* a dict or list that is not part of any document and refers to a document
\* object (a JSONCatalog's items dict, the dict the root was copied from)
Ext == -1

\* Text (a path, a key) is a sequence of one-character strings.
WordChars ==
  {"a", "b", "c", "d", "e", "f", "g", "h", "i", "j", "k", "l", "m", "n", "o",
   "p", "q", "r", "s", "t", "u", "v", "w", "x", "y", "z", "_",
   "0", "1", "2", "3", "4", "5", "6", "7", "8", "9"}
DigitChars == <<"0", "1", "2", "3", "4", "5", "6", "7", "8", "9">>
IsDigit(ch) == \E d \in 1..10 : DigitChars[d] = ch

\* The field names of an object, by position of the field: JSON allows any
\* string as a key.
KeyAt(k) ==
  IF k = 1 THEN <<"a">>
  ELSE IF k = 2 THEN <<"n", "_", "1">>
  ELSE <<"c", "-", "d">>

\* JSONTreeWalker.is_json_container
is_json_container(n) == n = Ext \/ kind[n] \in {"root", "dict", "list"}

\* JSONTreeWalker.is_object
is_object(n) == n = Ext \/ kind[n] \in {"root", "dict"}

\* isinstance(item, JSONTreeRoot)
is_root(n) == n # Ext /\ kind[n] = "root"

\* The nodes of the subtree of n, by the forward edges alone.
RECURSIVE Subtree(_)
Subtree(n) ==
  {n} \cup (IF is_json_container(n)
            THEN UNION {Subtree(kids[n][k]) : k \in DOMAIN kids[n]}
            ELSE {})

\* JSONTreeWalker._iter_json_children: <<key, child>> pairs; a key is
\* [t |-> "key", k |-> text] for a dict and [t |-> "index", n |-> i] for a list
iter_json_children(n) ==
  [k \in 1..Len(kids[n]) |->
     <<IF kind[n] = "list" THEN [t |-> "index", k |-> <<>>, n |-> k - 1]
       ELSE [t |-> "key", k |-> KeyAt(k), n |-> 0],
       kids[n][k]>>]

Reversed(s) == [k \in 1..Len(s) |-> s[Len(s) + 1 - k]]

\* util.pairwise over a tuple
pairwise(s) == [k \in 1..(Len(s) - 1) |-> <<s[k], s[k + 1]>>]

SelectContainers(s) == SelectSeq(s, is_json_container)

walk_down_forward(it) ==
  LET ch == iter_json_children(it)
  IN SelectContainers([k \in 1..Len(ch) |-> ch[k][2]])

\* JSONTreeWalker._walk_down: the children it yields, in the order it yields
\* them; each is cached with `it` as its parent once the caller resumes
walk_down(it) ==
  LET ch == Reversed(iter_json_children(it))
  IN SelectContainers([k \in 1..Len(ch) |-> ch[k][2]])

\* JSONTreeWalker._cached_parent
cached_parent(cache, it) == Get(cache, it, Ext)
HasCached(cache, it) == it \in DOMAIN cache

\* bool(container): an empty dict or list is false
Truthy(n) == n = Ext \/ Len(kids[n]) > 0

\* gc.get_referrers(item) filtered by is_json_container: the document
\* containers that hold item, and the outside container when one holds it.
\* The order is the garbage collector's: env.desc and env.extFirst choose it.
RECURSIVE SortedSeq(_)
SortedSeq(S) ==
  IF S = {} THEN <<>>
  ELSE LET m == CHOOSE x \in S : \A y \in S : x <= y
       IN <<m>> \o SortedSeq(S \ {m})

Holders(it) ==
  IF it = Ext THEN {}
  ELSE {p \in DOMAIN kids :
          is_json_container(p) /\ \E k \in DOMAIN kids[p] : kids[p][k] = it}

referrers(it, env) ==
  LET doc == SortedSeq(Holders(it))
      docs == IF env.desc THEN Reversed(doc) ELSE doc
      ext == IF it # Ext /\ it \in env.held THEN <<Ext>> ELSE <<>>
  IN IF env.extFirst THEN ext \o docs ELSE docs \o ext

\* JSONTreeWalker._walk_up
walk_up(cache, it, env) ==
  IF it # Ext /\ HasCached(cache, it) /\ Truthy(cached_parent(cache, it))
  THEN <<cached_parent(cache, it)>>
  ELSE referrers(it, env)

\* neighbour_func(item) for the two uses of _traverse_graph
neighbours(mode, cache, it, env) ==
  IF mode = "down" THEN walk_down(it) ELSE walk_up(cache, it, env)

\* the cache after neighbour_func(item) was consumed by queue.extend
cache_after(mode, cache, it, nb) ==
  IF mode = "down"
  THEN [x \in (DOMAIN cache) \cup Range(nb) |->
          IF x \in Range(nb) THEN it ELSE cache[x]]
  ELSE cache

\* JSONTreeWalker._traverse_graph, run to exhaustion: the chains it yields, in
\* order, and the parent cache afterwards.  queue.pop() takes the right end.
RECURSIVE traverse_graph(_, _, _, _, _, _)
traverse_graph(mode, queue, visited, out, cache, env) ==
  IF Len(queue) = 0 THEN [out |-> out, cache |-> cache]
  ELSE LET chain == queue[Len(queue)]
           rest == SubSeq(queue, 1, Len(queue) - 1)
           it == chain[1]
       IN IF it \in visited
          THEN traverse_graph(mode, rest, visited, out, cache, env)
          ELSE \* the next round starts from values, not from pending calls
               LET extend(nb) ==
                     CHOOSE r \in
                       {traverse_graph(mode, queue1, visited1, out1, cache1, env) :
                          queue1 \in {rest \o [k \in 1..Len(nb) |-> <<nb[k]>> \o chain]},
                          visited1 \in {visited \cup {it}},
                          out1 \in {Append(out, chain)},
                          cache1 \in {cache_after(mode, cache, it, nb)}} : TRUE
               IN CHOOSE r \in
                    {extend(nb) : nb \in {neighbours(mode, cache, it, env)}} : TRUE

NoEnv == [held |-> {}, extFirst |-> FALSE, desc |-> FALSE]

\* JSONTreeWalker.traverse(start), consumed to the end: the objects yielded
\* and the parent cache afterwards
traverse(cache, start) ==
  IF ~is_json_container(start) THEN [res |-> <<>>, cache |-> cache]
  ELSE LET t == traverse_graph("down", <<<<start>>>>, {}, <<>>, cache, NoEnv)
           heads == [k \in 1..Len(t.out) |-> t.out[k][1]]
       IN [res |-> SelectSeq(heads, is_object), cache |-> t.cache]

cache_chain_swapped(cache, chain) ==
  LET pw == pairwise(chain)
      firsts == {pw[k][1] : k \in DOMAIN pw}
  IN [x \in (DOMAIN cache) \cup firsts |->
        IF x \in firsts
        THEN pw[CHOOSE k \in DOMAIN pw : pw[k][1] = x][2]
        ELSE cache[x]]

\* the cache after `for (parent, child) in pairwise(chain): _cache_parent`
cache_chain(cache, chain) ==
  LET pw == pairwise(chain)
      children == {pw[k][2] : k \in DOMAIN pw}
  IN [x \in (DOMAIN cache) \cup children |->
        IF x \in children
        THEN pw[CHOOSE k \in DOMAIN pw : pw[k][2] = x][1]
        ELSE cache[x]]

\* JSONTreeWalker.parents(item): kind "ok" with res = chain[:-1], or kind
\* "None"; the generator is abandoned at the first chain that ends at a root
parents(cache, it, env) ==
  LET t == traverse_graph("up", <<<<it>>>>, {}, <<>>, cache, env)
      hits == {k \in DOMAIN t.out : is_root(t.out[k][1])}
  IN IF hits = {} THEN [kind |-> "None", res |-> <<>>, cache |-> cache]
     ELSE LET chain == t.out[CHOOSE k \in hits : \A j \in hits : k <= j]
          IN [kind |-> "ok", res |-> SubSeq(chain, 1, Len(chain) - 1),
              cache |-> cache_chain(cache, chain)]

\* a == b for two JSON values: dicts by key set and values (the scalar
\* fields and the container values), lists by length and elements, strings by
\* content (every scalar held as a node of the arena is "s")
RECURSIVE DeepEq(_, _)
DeepEq(a, b) ==
  \/ a = b
  \/ /\ a # Ext /\ b # Ext
     /\ \/ kind[a] = "str" /\ kind[b] = "str"
        \/ /\ is_object(a) /\ is_object(b)
           /\ fields[a] = fields[b]
           /\ Len(kids[a]) = Len(kids[b])
           /\ \A k \in DOMAIN kids[a] : DeepEq(kids[a][k], kids[b][k])
        \/ /\ kind[a] = "list" /\ kind[b] = "list"
           /\ Len(kids[a]) = Len(kids[b])
           /\ \A k \in DOMAIN kids[a] : DeepEq(kids[a][k], kids[b][k])

\* str(n) for n >= 0
RECURSIVE str_int(_)
str_int(n) ==
  IF n < 10 THEN <<DigitChars[n + 1]>>
  ELSE str_int(n \div 10) \o <<DigitChars[(n % 10) + 1]>>

\* int(text) for a text of digits
RECURSIVE int_str(_)
int_str(t) ==
  IF Len(t) = 0 THEN 0
  ELSE 10 * int_str(SubSeq(t, 1, Len(t) - 1))
       + ((CHOOSE d \in 1..10 : DigitChars[d] = t[Len(t)]) - 1)

\* JSONTreeWalker._get_json_key: the dict branch compares with `is`, the list
\* branch uses list.index, which compares with ==; kind "error" is the
\* StopIteration / ValueError of a child that is not found
get_json_key(parent, child) ==
  LET same == {k \in DOMAIN kids[parent] : kids[parent][k] = child}
      equal == {k \in DOMAIN kids[parent] : DeepEq(kids[parent][k], child)}
      hits == IF is_object(parent) THEN same ELSE equal
      first_hit == CHOOSE k \in hits : \A j \in hits : k <= j
  IN IF parent = Ext \/ hits = {} THEN [kind |-> "error", text |-> <<>>]
     ELSE IF is_object(parent)
          THEN [kind |-> "ok", text |-> <<".">> \o KeyAt(first_hit)]
          ELSE [kind |-> "ok", text |-> <<"[">> \o str_int(first_hit - 1) \o <<"]">>]

\* '<broken_json_path>'
BrokenPath ==
  <<"<", "b", "r", "o", "k", "e", "n", "_", "j", "s", "o", "n", "_",
    "p", "a", "t", "h", ">">>

\* ''.join(texts)
RECURSIVE join(_)
join(texts) ==
  IF Len(texts) = 0 THEN <<>> ELSE texts[1] \o join(Tail(texts))

\* JSONTreeWalker.json_path(item): the text, and the parent cache afterwards
json_path(cache, it, env) ==
  LET path_of(p) ==
        LET pw == pairwise(Append(p.res, it))
            parts == [k \in DOMAIN pw |-> get_json_key(pw[k][1], pw[k][2])]
        IN IF p.kind = "ok" /\ Len(p.res) > 0
           THEN IF \E k \in DOMAIN parts : parts[k].kind = "error"
                THEN [kind |-> "error", text |-> <<>>, cache |-> p.cache]
                ELSE [kind |-> "ok", cache |-> p.cache,
                      text |-> join([k \in DOMAIN parts |-> parts[k].text])]
           ELSE [kind |-> "ok", text |-> BrokenPath, cache |-> p.cache]
  \* parents(item) is called once and its result bound to p
  IN CHOOSE r \in {path_of(p) : p \in {parents(cache, it, env)}} : TRUE

\* the end (exclusive) of the longest run of characters of set S from position i
RECURSIVE run_end(_, _, _)
run_end(t, i, S) ==
  IF i <= Len(t) /\ t[i] \in S THEN run_end(t, i + 1, S) ELSE i

DigitSet == Range(DigitChars)

\* re.compile(r'\.?(\w+)|\[(\d+)\]').findall(path) from position i on, with
\* the loop of parse_json_path applied to each match
RECURSIVE parse_from(_, _)
parse_from(t, i) ==
  IF i > Len(t) THEN <<>>
  ELSE LET w0 == IF t[i] = "." THEN i + 1 ELSE i
           w1 == run_end(t, w0, WordChars)
           d1 == run_end(t, i + 1, DigitSet)
       IN IF w1 > w0
          THEN <<[t |-> "key", k |-> SubSeq(t, w0, w1 - 1), n |-> 0]>>
               \o parse_from(t, w1)
          ELSE IF t[i] = "[" /\ d1 > i + 1 /\ d1 <= Len(t) /\ t[d1] = "]"
               THEN <<[t |-> "index", k |-> <<>>,
                       n |-> int_str(SubSeq(t, i + 1, d1 - 1))]>>
                    \o parse_from(t, d1 + 1)
               ELSE parse_from(t, i + 1)

\* JSONTreeWalker.parse_json_path
parse_json_path(path) == parse_from(path, 1)

\* item[key] for one step of locate: [kind |-> "ok", node], or "None" for the
\* IndexError/KeyError that locate turns into None, or "TypeError"
getitem(n, key) ==
  IF is_object(n)
  THEN LET hits == {k \in DOMAIN kids[n] : key.t = "key" /\ KeyAt(k) = key.k}
       IN IF hits = {} THEN [kind |-> "None", node |-> Root]
          ELSE [kind |-> "ok", node |-> kids[n][CHOOSE k \in hits : TRUE]]
  ELSE IF kind[n] = "list"
  THEN IF key.t # "index" THEN [kind |-> "TypeError", node |-> Root]
       ELSE IF key.n + 1 \in DOMAIN kids[n]
            THEN [kind |-> "ok", node |-> kids[n][key.n + 1]]
            ELSE [kind |-> "None", node |-> Root]
  ELSE \* the one-character string "s"
       IF key.t # "index" THEN [kind |-> "TypeError", node |-> Root]
       ELSE IF key.n = 0 THEN [kind |-> "ok", node |-> n]
            ELSE [kind |-> "None", node |-> Root]

RECURSIVE locate_from(_, _, _)
locate_from(n, keys, i) ==
  IF i > Len(keys) THEN [kind |-> "ok", res |-> <<n>>]
  ELSE LET g == getitem(n, keys[i])
       IN IF g.kind = "ok" THEN locate_from(g.node, keys, i + 1)
          ELSE [kind |-> g.kind, res |-> <<>>]

\* JSONTree.locate(path), computed on the document
locate(path) == locate_from(Root, parse_json_path(path), 1)

\* ------------------------------------------------- walker specification
NoWCall == [op |-> "none", node |-> Ext, path |-> <<>>, kind |-> "ok", res |-> <<>>]

\* Every tree-shaped document over the nodes: node i is held by an earlier
\* container node, the values of a container are in handle order.
DocInit ==
  \E pv \in [1..MaxNodes -> 0..(MaxNodes - 1)],
     kd \in [1..MaxNodes -> {"dict", "list", "str"}] :
    /\ \A i \in 1..MaxNodes : pv[i] < i /\ (pv[i] # Root => kd[pv[i]] # "str")
    /\ kind = [n \in Nodes |-> IF n = Root THEN "root" ELSE kd[n]]
    /\ kids = [n \in Nodes |-> SortedSeq({i \in 1..MaxNodes : pv[i] = n})]
    /\ fields = [n \in Nodes |-> EmptyDict]

\* no document loaded: a root without content
NoDoc ==
  /\ kind = [n \in Nodes |-> IF n = Root THEN "root" ELSE "str"]
  /\ kids = [n \in Nodes |-> <<>>]
  /\ fields = [n \in Nodes |-> EmptyDict]

\* scall: op; how the call ended (kind); the node list, the child lists and
\* the fields as they were before the call (kids0, fields0); the pairs
\* (node, parent) a reparent pass yielded (moved); the objects the predicate
\* of a filter pass keeps (keep), the indices it returned (deleted) and the
\* uid set it was given, before and after (valid0, valid).  For a clone,
\* moved holds the pairs (object of the template, its copy) and valid0 the
\* node_uid the call was given.  For closure collection and the passes of
\* the filter command, valid, variables and dimension_instances hold the
\* three uid sets of the structure collect_sector_uids returned.
\* valid_uids=None, and a uid set given by the caller
NoUids == [given |-> FALSE, uids |-> {}]
SomeUids(S) == [given |-> TRUE, uids |-> S]

NoSCall ==
  [op |-> "none", kind |-> "ok", kids0 |-> <<>>, fields0 |-> <<>>,
   moved |-> <<>>, keep |-> {}, deleted |-> <<>>, valid0 |-> NoUids,
   valid |-> NoUids, variables |-> {}, dimension_instances |-> {}]

WalkerInit ==
  /\ DocInit
  /\ parents_ = EmptyDict
  /\ wcall = NoWCall
  /\ scall = NoSCall
  /\ NoSession

\* What the garbage collector can report for a call on a tree-shaped document:
\* no outside container holds a document object, or one holds them all and is
\* reported before or after the holder in the document (every node of a tree
\* has one holder in the document, so env.desc decides nothing here).
Envs ==
  {NoEnv} \cup
  {[held |-> {n \in Nodes : is_json_container(n)}, extFirst |-> e, desc |-> FALSE] :
     e \in BOOLEAN}

\* list(tree.traverse(start))
Traverse(start) ==
  LET t == traverse(parents_, start)
  IN /\ parents_' = t.cache
     /\ wcall' = [NoWCall EXCEPT !.op = "traverse", !.node = start, !.res = t.res]
     /\ UNCHANGED <<kind, kids, fields, scall, cvars, svars>>

\* tree.parents(x)
Parents(x) ==
  /\ is_json_container(x)
  /\ \E env \in Envs :
       LET p == parents(parents_, x, env)
       IN /\ parents_' = p.cache
          /\ wcall' = [NoWCall EXCEPT !.op = "parents", !.node = x,
                         !.kind = p.kind, !.res = p.res]
  /\ UNCHANGED <<kind, kids, fields, scall, cvars, svars>>

\* tree.json_path(x)
JsonPath(x) ==
  /\ is_json_container(x)
  /\ \E env \in Envs :
       LET p == json_path(parents_, x, env)
       IN /\ parents_' = p.cache
          /\ wcall' = [NoWCall EXCEPT !.op = "json_path", !.node = x,
                         !.kind = p.kind, !.path = p.text]
  /\ UNCHANGED <<kind, kids, fields, scall, cvars, svars>>

\* tree.locate(path) with the path json_path has just returned for wcall.node
LocatePath ==
  /\ wcall.op = "json_path" /\ wcall.kind = "ok"
  /\ LET l == locate(wcall.path)
     IN wcall' = [NoWCall EXCEPT !.op = "locate", !.node = wcall.node,
                    !.path = wcall.path, !.kind = l.kind, !.res = l.res]
  /\ UNCHANGED <<kind, kids, fields, parents_, scall, cvars, svars>>

WalkerNext ==
  \/ \E n \in Nodes : Traverse(n)
  \/ \E n \in Nodes : Parents(n)
  \/ \E n \in Nodes : JsonPath(n)
  \/ LocatePath

\* a loaded document, an empty parent cache and an unused catalog
WalkerStart == CatIdle /\ WalkerInit

SpecWalker == WalkerStart /\ [][WalkerNext]_vars

\* -------------------------------------------------- catalog specification
CatNext ==
  \/ \E i \in Items : Index(i)
  \/ \E i \in Items : Unindex(i)
  \/ Clear
  \/ \E i \in Items : Mutate(i)
  \/ Search
  \/ First
  \/ One

\* a new catalog beside an empty document
CatStart ==
  /\ CatInit /\ NoDoc /\ parents_ = EmptyDict /\ wcall = NoWCall /\ scall = NoSCall
  /\ NoSession

SpecCatalog == CatStart /\ [][CatNext]_vars

\* ---------------------------------------------------- country documents
\* A CountryData document in the arena: the root holds country_specific_data
\* (Csd), which holds the node list (NodeList); the list holds MaxTop node
\* objects, each with scalar fields and possibly a child list under 'node'.
\* The variables, grids and data branches take no part in the node passes and
\* are left out; the key of the k-th container-valued field is KeyAt(k).
Csd == 1
NodeList == 2
TopNodes == {NodeList + i : i \in 1..MaxTop}
ChildList(n) == n + MaxTop
CHandles == 0..(NodeList + 2 * MaxTop)

\* the attributes of CountryData.node_index
NodeIndexes == {"uid", "parent_uid", "template_node_uid", "name_prefix", "name"}

\* JSONCatalog.index_iterable over the objects of a traversal
RECURSIVE index_iterable(_, _)
index_iterable(c, data) ==
  IF Len(data) = 0 THEN c
  ELSE CHOOSE r \in {index_iterable(c1, rest) :
                      c1 \in {index(c, fields[data[1]], data[1])},
                      rest \in {Tail(data)}} : TRUE

\* the catalog history of SpecCatalog is not used by the tree surgery
NoCatHistory ==
  /\ item = [i \in Items |-> NewItem(i)]
  /\ registered = {}
  /\ snapshot = [i \in Items |-> EmptyDict]
  /\ nmut = 0
  /\ call = NoCall

\* CountryData.__init__ on a document whose node i has the fields fl[i];
\* lists tells whether the nodes carry a 'node' list.  Building node_index
\* consumes traverse(self.nodes), which fills the parent cache.
CountryInit(fl, lists) ==
  /\ kind = [n \in CHandles |->
               IF n = Root THEN "root"
               ELSE IF n = Csd \/ n \in TopNodes THEN "dict"
               ELSE IF n = NodeList THEN "list"
               ELSE IF lists THEN "list" ELSE "free"]
  /\ kids = [n \in CHandles |->
               IF n = Root THEN <<Csd>>
               ELSE IF n = Csd THEN <<NodeList>>
               ELSE IF n = NodeList THEN [i \in 1..MaxTop |-> NodeList + i]
               ELSE IF n \in TopNodes /\ lists THEN <<ChildList(n)>>
               ELSE <<>>]
  /\ fields = [n \in CHandles |-> IF n \in TopNodes THEN fl[n] ELSE EmptyDict]
  /\ \E t \in {traverse(EmptyDict, NodeList)} :
       /\ parents_ = t.cache
       /\ cat = index_iterable(NewCatalog(NodeIndexes), t.res)
  /\ NoCatHistory
  /\ wcall = NoWCall
  /\ scall = NoSCall
  /\ NoSession

\* What gc.get_referrers can report in a CountryData session: node_index.items
\* holds every indexed object and the instance dict holds the node list (a
\* cached property); the order of the referrers is the collector's.
CEnvs ==
  {[held |-> cat.items \cup {NodeList}, extFirst |-> e, desc |-> d] :
     e \in BOOLEAN, d \in BOOLEAN}

\* country_data.json_path(x), as in the debug log of fix_node_grid
ProbePath(x) ==
  /\ x \in DOMAIN kind /\ is_json_container(x)
  /\ \E env \in CEnvs :
       LET p == json_path(parents_, x, env)
       IN /\ parents_' = p.cache
          /\ wcall' = [NoWCall EXCEPT !.op = "json_path", !.node = x,
                         !.kind = p.kind, !.path = p.text]
  /\ UNCHANGED <<kind, kids, fields, scall, cvars, svars>>

\* ------------------------------------------------------ filtered deletion
\* del item_list[index]
DelAt(list, i) ==
  IF i \in DOMAIN list
  THEN SubSeq(list, 1, i - 1) \o SubSeq(list, i + 1, Len(list))
  ELSE list

\* for index in reversed(to_delete): del item_list[index]
RECURSIVE delete_indices(_, _)
delete_indices(list, order) ==
  IF Len(order) = 0 THEN list
  ELSE delete_indices(DelAt(list, order[1]), Tail(order))

filter_out_forward(item_list, keep, valid_uids) ==
  LET to_delete == SortedSeq({k \in DOMAIN item_list : item_list[k] \notin keep})
  IN [list |-> delete_indices(item_list, to_delete),
      to_delete |-> to_delete,
      valid |-> valid_uids]

filter_out_adds_deleted(item_list, keep, valid_uids) ==
  LET to_delete == SortedSeq({k \in DOMAIN item_list : item_list[k] \notin keep})
  IN [list |-> delete_indices(item_list, Reversed(to_delete)),
      to_delete |-> to_delete,
      valid |-> IF ~valid_uids.given THEN valid_uids
                ELSE SomeUids(valid_uids.uids
                                \cup {fields[n]["uid"] : n \in Range(item_list)})]

\* CountryData.filter_out(item_list, filter_func, valid_uids): filter_func
\* holds of the objects in keep; valid_uids is NoUids or SomeUids(a set)
filter_out(item_list, keep, valid_uids) ==
  LET to_delete == SortedSeq({k \in DOMAIN item_list : item_list[k] \notin keep})
      survivors == {item_list[k] : k \in {j \in DOMAIN item_list : item_list[j] \in keep}}
  IN [list |-> delete_indices(item_list, Reversed(to_delete)),
      to_delete |-> to_delete,
      valid |-> IF ~valid_uids.given THEN valid_uids
                ELSE SomeUids(valid_uids.uids
                                \cup {fields[n]["uid"] : n \in survivors})]

\* The uids of a country document (locally minted ones have no '-').
LocalUids == {"a", "b"}

\* a loaded document whose nodes carry a uid each
FilterStart ==
  \E u \in [TopNodes -> LocalUids], lists \in BOOLEAN :
    CountryInit([n \in TopNodes |-> [f \in {"uid"} |-> u[n]]], lists)

\* country_data.filter_out(country_data.nodes, predicate, uid set), the pass of
\* the filter command over the node list
FilterOut ==
  /\ scall.op = "none"
  /\ \E keep \in SUBSET TopNodes, v0 \in {NoUids, SomeUids({"z"})} :
       LET r == filter_out(kids[NodeList], keep, v0)
       IN /\ kids' = [kids EXCEPT ![NodeList] = r.list]
          /\ scall' = [NoSCall EXCEPT !.op = "filter_out", !.kids0 = kids,
                         !.fields0 = fields, !.keep = keep,
                         !.deleted = r.to_delete, !.valid0 = v0,
                         !.valid = r.valid]
  /\ UNCHANGED <<kind, fields, parents_, wcall, cvars, svars>>

FilterNext ==
  \/ FilterOut
  \/ \E x \in TopNodes : ProbePath(x)

SpecFilter == FilterStart /\ [][FilterNext]_vars

\* ------------------------------------------------------ memoised locate
\* json_path of the k-th place of the node list (the root holds
\* country_specific_data, which holds the node list, each under its first key)
NodePath(k) ==
  <<".">> \o KeyAt(1) \o <<".">> \o KeyAt(1) \o <<"[">> \o str_int(k) \o <<"]">>

\* JSONTree.locate under @functools.cache: a path seen before gives the
\* stored result without running the body; a returned value (an object or
\* None) is stored, an exception is not
locate_cached(memo, path) ==
  IF path \in DOMAIN memo THEN [res |-> memo[path], memo |-> memo]
  ELSE LET r == locate(path)
       IN [res |-> r,
           memo |-> IF r.kind \in {"ok", "None"} THEN Put(memo, path, r) ELSE memo]

\* country_data.locate(path)
Locate(path) ==
  /\ \E r \in {locate_cached(locate_cache, path)} :
       /\ locate_cache' = r.memo
       /\ wcall' = [NoWCall EXCEPT !.op = "locate", !.path = path,
                      !.kind = r.res.kind, !.res = r.res.res]
  /\ UNCHANGED <<kind, kids, fields, parents_, scall, grid_index, cvars>>

LocateNext ==
  \/ FilterOut
  \/ \E k \in 0..MaxTop : Locate(NodePath(k))

SpecLocate == FilterStart /\ [][LocateNext]_vars

\* ------------------------------------------------------------ reparent
\* uid values: locally minted ones, one in the format of the metadata (with
\* a '-'), one that no node carries, and the JSON null
UidNames == <<"a", "b", "c", "d", "e", "f">>
LocalUid(n) == UidNames[n - NodeList]
ForeignUid == "t-1"
MissingUid == "missing"

\* CountryData.is_metadata_uid for a string: '-' in uid
is_metadata_uid(uid) == uid = ForeignUid

\* the state of the pass inside the loop of reparent_nodes
ReparentState(kd, ks, fl) ==
  [kind |-> kd, kids |-> ks, fields |-> fl, nested |-> <<>>, moved |-> <<>>,
   result |-> "ok"]

\* parent_node.setdefault('node', []).append(node); nested_nodes.append(index);
\* del node['parent_uid']
move_node(st, idx, node, parent_node) ==
  LET list == ChildList(parent_node)
      present == st.kind[list] = "list"
      ks == IF present THEN st.kids
            ELSE [st.kids EXCEPT ![parent_node] = Append(@, list)]
  IN [st EXCEPT
        !.kind = [st.kind EXCEPT ![list] = "list"],
        !.kids = [ks EXCEPT ![list] = Append(@, node)],
        !.fields = [st.fields EXCEPT ![node] = Del(@, "parent_uid")],
        !.nested = Append(@, idx),
        !.moved = Append(@, <<node, parent_node>>)]

\* The loop of CountryData.reparent_nodes from position idx (index) on: the states
\* in which it can end (node_index.first takes an arbitrary match).  The node
\* list and node_index do not change inside the loop.
RECURSIVE reparent_loop(_, _, _)
reparent_loop(c, st, idx) ==
  IF idx > Len(st.kids[NodeList]) THEN {st}
  ELSE
    LET node == st.kids[NodeList][idx]
        f == st.fields[node]
    IN IF ~("template_node_uid" \in DOMAIN f /\ "parent_uid" \in DOMAIN f)
       THEN reparent_loop(c, st, idx + 1)
       ELSE IF f["uid"] = "None"
       THEN {[st EXCEPT !.result = "TypeError"]}
       ELSE IF is_metadata_uid(f["uid"])
       THEN reparent_loop(c, st, idx + 1)
       ELSE IF f["parent_uid"] = "None"
       THEN {[st EXCEPT !.result = "TypeError"]}
       ELSE IF is_metadata_uid(f["parent_uid"])
       THEN reparent_loop(c, st, idx + 1)
       ELSE UNION {
              IF found.kind = "None"
              THEN reparent_loop(c, st, idx + 1)
              ELSE UNION {reparent_loop(c, st1, idx + 1) :
                            st1 \in {move_node(st, idx, node, found.res[1])}} :
              found \in first(c, <<<<"uid", f["parent_uid"]>>>>)}

\* The node shapes of a document handed to the fix command.
Shapes ==
  {[s |-> "plain", p |-> 0], [s |-> "ref", p |-> 0], [s |-> "missing", p |-> 0],
   [s |-> "null", p |-> 0], [s |-> "foreign", p |-> 0],
   [s |-> "own_foreign", p |-> 0], [s |-> "twin", p |-> 0]}
  \cup {[s |-> "child", p |-> j] : j \in TopNodes}

FirstNode == NodeList + 1

ShapeUid(sh, n) ==
  IF sh[n].s = "own_foreign" THEN ForeignUid
  ELSE IF sh[n].s = "twin" THEN LocalUid(FirstNode)
  ELSE LocalUid(n)

\* the fields of node n: a plain node, a node with parent_uid but no template
\* marker, an override whose parent is node p, is missing, is null or is a
\* metadata uid, an override with a metadata uid of its own, and a node that
\* repeats the uid of the first node
ShapeFields(sh, n) ==
  LET uid == [f \in {"uid"} |-> ShapeUid(sh, n)]
      tmpl == Put(uid, "template_node_uid", ForeignUid)
      s == sh[n].s
  IN IF s = "plain" \/ s = "twin" THEN uid
     ELSE IF s = "ref" THEN Put(uid, "parent_uid", ShapeUid(sh, FirstNode))
     ELSE IF s = "missing" THEN Put(tmpl, "parent_uid", MissingUid)
     ELSE IF s = "null" THEN Put(tmpl, "parent_uid", "None")
     ELSE IF s = "foreign" THEN Put(tmpl, "parent_uid", ForeignUid)
     ELSE IF s = "own_foreign" THEN Put(tmpl, "parent_uid", ShapeUid(sh, FirstNode))
     ELSE Put(tmpl, "parent_uid", ShapeUid(sh, sh[n].p))

ReparentStart ==
  \E sh \in [TopNodes -> Shapes], lists \in BOOLEAN :
    CountryInit([n \in TopNodes |-> ShapeFields(sh, n)], lists)

\* list(country_data.reparent_nodes()), the pass of the fix command: the loop,
\* then the removal of the moved nodes from the node list and the rebuild of
\* node_index from traverse(self.nodes), which also refills the parent cache.
\* An exception inside the loop leaves the document as the loop left it.
Reparent ==
  /\ scall.op = "none"
  /\ \E st \in reparent_loop(cat, ReparentState(kind, kids, fields), 1) :
       /\ kind' = st.kind
       /\ fields' = st.fields
       /\ scall' = [NoSCall EXCEPT !.op = "reparent", !.kind = st.result,
                      !.kids0 = kids, !.fields0 = fields, !.moved = st.moved]
       /\ IF st.result = "ok" /\ Len(st.nested) > 0
          THEN /\ kids' = [st.kids EXCEPT ![NodeList] =
                             delete_indices(@, Reversed(st.nested))]
               /\ \E c0 \in {clear(cat)}, cache \in {parents_} :
                    \E t \in {(traverse(cache, NodeList))'} :
                      /\ parents_' = t.cache
                      /\ cat' = (index_iterable(c0, t.res))'
          ELSE /\ kids' = st.kids
               /\ UNCHANGED <<parents_, cat>>
  /\ UNCHANGED <<item, registered, snapshot, nmut, call, wcall, svars>>

ReparentNext == Reparent

SpecReparent == ReparentStart /\ [][ReparentNext]_vars

\* ------------------------------------------------------ uid collection
\* the uid a document object carries when it carries one of its own
OwnUid(n) == UidNames[n + 1]

\* item.get('uid'): None for an object without the field
get_uid(n) == Get(fields[n], "uid", "None")

collect_uids_no_parents(cache, it, env) ==
  LET run(t) ==
        [kind |-> "ok", cache |-> t.cache,
         uids |-> {get_uid(n) : n \in Range(t.res)} \ {"None"}]
  IN CHOOSE r \in {run(t) : t \in {traverse(cache, it)}} : TRUE

\* JSONTree.collect_uids(item): the uid set or, when parents(item) is None,
\* the TypeError of iterating it; and the parent cache afterwards
collect_uids(cache, it, env) ==
  LET run(t, p) ==
        IF p.kind = "None"
        THEN [kind |-> "TypeError", cache |-> p.cache, uids |-> {}]
        ELSE [kind |-> "ok", cache |-> p.cache,
              uids |-> ({get_uid(n) : n \in Range(t.res)} \cup
                        {get_uid(n) : n \in {x \in Range(p.res) : is_object(x)}})
                       \ {"None"}]
      after(t) ==
        CHOOSE r \in {run(t, p) : p \in {parents(t.cache, it, env)}} : TRUE
  IN CHOOSE r \in {after(t) : t \in {traverse(cache, it)}} : TRUE

\* how an object of the loaded document comes with its uid
UidChoices == {"absent", "null", "own"}

\* Every tree-shaped document of objects and arrays (scalar values are not
\* visited by either walk) whose objects carry no uid, a null uid or a uid of
\* their own (the root: none or its own).
UidDocInit ==
  \E pv \in [1..MaxNodes -> 0..(MaxNodes - 1)],
     kd \in [1..MaxNodes -> {"dict", "list"}],
     uc \in [Nodes -> UidChoices] :
    /\ \A i \in 1..MaxNodes : pv[i] < i
    /\ \A i \in 1..MaxNodes : kd[i] # "dict" => uc[i] = "absent"
    /\ uc[Root] # "null"
    /\ kind = [n \in Nodes |-> IF n = Root THEN "root" ELSE kd[n]]
    /\ kids = [n \in Nodes |-> SortedSeq({i \in 1..MaxNodes : pv[i] = n})]
    /\ fields = [n \in Nodes |->
                   IF uc[n] = "absent" THEN EmptyDict
                   ELSE Put(EmptyDict, "uid",
                            IF uc[n] = "null" THEN "None" ELSE OwnUid(n))]

CollectStart ==
  /\ CatIdle
  /\ UidDocInit
  /\ parents_ = EmptyDict
  /\ wcall = NoWCall
  /\ scall = NoSCall
  /\ NoSession

\* tree.collect_uids(m) for a container m of the document
CollectUids(m) ==
  /\ is_json_container(m)
  /\ \E env \in Envs :
       \E r \in {collect_uids(parents_, m, env)} :
         /\ parents_' = r.cache
         /\ wcall' = [NoWCall EXCEPT !.op = "collect_uids", !.node = m,
                        !.kind = r.kind]
         /\ scall' = [NoSCall EXCEPT !.op = "collect_uids",
                        !.valid = SomeUids(r.uids)]
  /\ UNCHANGED <<kind, kids, fields, cvars, svars>>

CollectNext == \E m \in Nodes : CollectUids(m)

SpecCollect == CollectStart /\ [][CollectNext]_vars

\* ----------------------------------------------------- template cloning
\* A CountryData document with a template grid: country_specific_data holds
\* the node list, the variable list and the grid list; the grid list holds
\* the template grid, whose 'group' list holds groups that may hold a 'group'
\* list of their own.  The handles from FreeBase on are unused memory.
VarList == 3
GridList == 4
Template == 5
TGroupList == 6
TGroups == {TGroupList + i : i \in 1..MaxGroups}
GroupList(g) == g + MaxGroups
PreVar1 == TGroupList + 2 * MaxGroups + 1
PreVar2 == PreVar1 + 1
FreeBase == PreVar2 + 1

TemplateUid == "t-1"
NewNodes == {"n1", "n2"}
TVars == {"v1", "v2"}
GroupUids == <<"g1", "g2", "g3", "g4">>

\* what a clone call can allocate: the copy of the template and one variable
\* per template variable
TemplateSize == 2 + 2 * MaxGroups
GHandles == 0..(FreeBase + MaxClones * (TemplateSize + Cardinality(TVars)) - 1)

\* The fix command works on two documents: the country data with two nodes
\* in its node list, and the metadata, whose root holds the 'grid' list with
\* the template grid.
FixNode1 == FreeBase + MaxClones * (TemplateSize + Cardinality(TVars))
FixNode2 == FixNode1 + 1
FixNodes == {FixNode1, FixNode2}
FMeta == FixNode2 + 1
FMetaGrids == FMeta + 1
FHandles == 0..FMetaGrids

\* secrets.token_hex(12): 96 random bits, taken as a value that no object of
\* the document carries yet
Tokens ==
  <<"m01", "m02", "m03", "m04", "m05", "m06", "m07", "m08", "m09", "m10",
    "m11", "m12", "m13", "m14", "m15", "m16", "m17", "m18", "m19", "m20">>

\* CountryData.make_uid, given the fields of every object
make_uid(fl) ==
  Tokens[1 + Cardinality({k \in DOMAIN Tokens :
                            \E n \in DOMAIN fl :
                              "uid" \in DOMAIN fl[n] /\ fl[n]["uid"] = Tokens[k]})]

\* the fields of the i-th group of the template, by its shape
GroupShapes == {"v1", "v2", "null", "no_var", "no_uid"}
GroupFields(sh, i) ==
  IF sh = "no_uid" THEN [f \in {"variable_uid"} |-> "v1"]
  ELSE IF sh = "no_var" THEN [f \in {"uid"} |-> GroupUids[i]]
  ELSE [f \in {"uid", "variable_uid"} |->
          IF f = "uid" THEN GroupUids[i]
          ELSE IF sh = "null" THEN "None" ELSE sh]

PreVarFields(n) ==
  [f \in VarIndexes |->
     IF f = "uid" THEN (IF n = PreVar1 THEN "x1" ELSE "x2")
     ELSE IF f = "node_uid" THEN (IF n = PreVar1 THEN "n1" ELSE "n2")
     ELSE "v1"]

\* self.variable_index.first(node_uid=node_uid, template_var_uid=...)
find_variable_any_node(c, node_uid, template_var_uid) ==
  first(c, <<<<"template_var_uid", template_var_uid>>>>)

find_variable(c, node_uid, template_var_uid) ==
  first(c, <<<<"node_uid", node_uid>>, <<"template_var_uid", template_var_uid>>>>)

make_variable_unindexed(st, node_uid, template_var_uid) ==
  LET h == st.free[1]
      result == [f \in VarIndexes |->
                   IF f = "uid" THEN make_uid(st.fields)
                   ELSE IF f = "node_uid" THEN node_uid
                   ELSE template_var_uid]
  IN [st EXCEPT !.fields = [@ EXCEPT ![h] = result],
                !.variables = Append(@, h),
                !.made = Append(@, h),
                !.free = Tail(@)]

\* CountryData.make_variable on the loop state st: the new object takes the
\* next unused handle, joins self.variables and is indexed
make_variable(st, node_uid, template_var_uid) ==
  LET h == st.free[1]
      result == [f \in VarIndexes |->
                   IF f = "uid" THEN make_uid(st.fields)
                   ELSE IF f = "node_uid" THEN node_uid
                   ELSE template_var_uid]
  IN [st EXCEPT !.fields = [@ EXCEPT ![h] = result],
                !.variables = Append(@, h),
                !.made = Append(@, h),
                !.free = Tail(@),
                !.cat = index(@, result, h)]

\* the body of the loop of clone_grid_from_template for one object yielded by
\* traverse(result['group']): the loop states it can end in
clone_group(st, group, node_uid) ==
  LET fl == st.fields
  IN IF "uid" \notin DOMAIN fl[group] \/ "variable_uid" \notin DOMAIN fl[group]
     THEN {st}
     ELSE LET stamped == Put(fl[group], "template_group_uid", fl[group]["uid"])
              st1 == [st EXCEPT !.fields =
                        [@ EXCEPT ![group] = Put(stamped, "uid", make_uid(fl))]]
              template_var_uid == fl[group]["variable_uid"]
              resolved(s, variable) ==
                [s EXCEPT !.fields =
                   [@ EXCEPT ![group] =
                      Put(@, "variable_uid", s.fields[variable]["uid"])]]
          IN IF template_var_uid = "None" THEN {st1}
             ELSE {IF r.kind = "None"
                   THEN CHOOSE x \in
                          {resolved(s, s.made[Len(s.made)]) :
                             s \in {make_variable(st1, node_uid, template_var_uid)}} : TRUE
                   ELSE resolved(st1, r.res[1]) :
                   r \in find_variable(st1.cat, node_uid, template_var_uid)}

RECURSIVE clone_loop(_, _, _, _)
clone_loop(st, groups, k, node_uid) ==
  IF k > Len(groups) THEN {st}
  ELSE UNION {clone_loop(st1, groups, k + 1, node_uid) :
                st1 \in clone_group(st, groups[k], node_uid)}

\* A loaded document: the template grid with MaxGroups groups, the i-th held
\* by the 'group' list of group pg[i] or, for pg[i] = 0, of the grid; and the
\* variables of `pre` in the variable list.  __init__ builds variable_index
\* from the variable list; its traversals of the nodes and of the grids fill
\* the parent cache.
CloneInit(pg, sh, pre) ==
  LET holds(j) == SortedSeq({TGroupList + i : i \in {x \in 1..MaxGroups : pg[x] = j}})
  IN /\ kind = [n \in GHandles |->
                  IF n = Root THEN "root"
                  ELSE IF n \in {Csd, Template} \cup TGroups \cup pre THEN "dict"
                  ELSE IF n \in {NodeList, VarList, GridList, TGroupList} THEN "list"
                  ELSE IF \E g \in TGroups : n = GroupList(g) /\ holds(g - TGroupList) # <<>>
                       THEN "list"
                  ELSE "free"]
     /\ kids = [n \in GHandles |->
                  IF n = Root THEN <<Csd>>
                  ELSE IF n = Csd THEN <<NodeList, VarList, GridList>>
                  ELSE IF n = VarList THEN SortedSeq(pre)
                  ELSE IF n = GridList THEN <<Template>>
                  ELSE IF n = Template THEN <<TGroupList>>
                  ELSE IF n = TGroupList THEN holds(0)
                  ELSE IF n \in TGroups /\ holds(n - TGroupList) # <<>>
                       THEN <<GroupList(n)>>
                  ELSE IF \E g \in TGroups : n = GroupList(g)
                       THEN holds(n - MaxGroups - TGroupList)
                  ELSE <<>>]
     /\ fields = [n \in GHandles |->
                    IF n = Template THEN [f \in {"node_uid"} |-> TemplateUid]
                    ELSE IF n \in TGroups THEN GroupFields(sh[n - TGroupList], n - TGroupList)
                    ELSE IF n \in pre THEN PreVarFields(n)
                    ELSE EmptyDict]
     /\ \E t1 \in {traverse(EmptyDict, NodeList)} :
          \E t2 \in {traverse(t1.cache, GridList)} :
            /\ parents_ = t2.cache
            /\ grid_index = index_iterable(NewCatalog(GridIndexes), t2.res)
     /\ cat = index_iterable(NewCatalog(VarIndexes), kids[VarList])
     /\ NoCatHistory
     /\ wcall = NoWCall
     /\ scall = NoSCall
     /\ locate_cache = EmptyDict

CloneStart ==
  \E pg \in [1..MaxGroups -> 0..(MaxGroups - 1)],
     sh \in [1..MaxGroups -> GroupShapes],
     pre \in SUBSET {PreVar1, PreVar2} :
    /\ \A i \in 1..MaxGroups : pg[i] < i
    /\ CloneInit(pg, sh, pre)

\* Metadata.get_grid(node_uid): the metadata is never changed, so its
\* grid_index is as Metadata.__init__ built it from iter(self.grids)
metadata_get_grid(node_uid) ==
  first(index_iterable(NewCatalog(GridIndexes),
                       IF FMetaGrids \in DOMAIN kids THEN kids[FMetaGrids] ELSE <<>>),
        <<<<"node_uid", node_uid>>>>)

\* CountryData.get_grid(node_uid, fallback_to_metadata)
get_grid(node_uid, fallback_to_metadata) ==
  IF fallback_to_metadata
  THEN UNION {IF r.kind = "None" THEN metadata_get_grid(node_uid) ELSE {r} :
                r \in first(grid_index, <<<<"node_uid", node_uid>>>>)}
  ELSE first(grid_index, <<<<"node_uid", node_uid>>>>)

\* the grid objects that clone calls have returned
Clones == {n \in DOMAIN kind : n >= FreeBase /\ kind[n] = "dict" /\ Holders(n) = {}}

\* copy.deepcopy(grid): the containers of the grid in handle order, and the
\* unused handles that their copies and the new variables take
CopyPlan(grid) ==
  LET orig == SortedSeq({x \in Subtree(grid) : is_json_container(x)})
      free == SortedSeq({n \in DOMAIN kind : n >= FreeBase /\ kind[n] = "free"})
  IN [orig |-> orig,
      copy |-> [x \in Range(orig) |->
                  free[CHOOSE k \in DOMAIN orig : orig[k] = x]],
      free |-> SubSeq(free, Len(orig) + 1, Len(free))]

\* the document after deepcopy by plan and `made` new variables: kinds, child
\* lists, and the fields on which the loop starts
AfterCopy(plan, made, node_uid) ==
  LET result == plan.copy[plan.orig[1]]
      origin == [c \in {plan.copy[x] : x \in Range(plan.orig)} |->
                   CHOOSE x \in Range(plan.orig) : plan.copy[x] = c]
  IN [result |-> result,
      kind |-> [n \in DOMAIN kind |->
                  IF n \in DOMAIN origin THEN kind[origin[n]]
                  ELSE IF n \in Range(made) THEN "dict"
                  ELSE kind[n]],
      kids |-> [n \in DOMAIN kids |->
                  IF n \in DOMAIN origin
                  THEN [k \in DOMAIN kids[origin[n]] |-> plan.copy[kids[origin[n]][k]]]
                  ELSE IF n = VarList THEN kids[n] \o made
                  ELSE kids[n]],
      fields |-> [n \in DOMAIN fields |->
                    IF n = result THEN Put(fields[origin[n]], "node_uid", node_uid)
                    ELSE IF n \in DOMAIN origin THEN fields[origin[n]]
                    ELSE fields[n]],
      pairs |-> [k \in DOMAIN plan.orig |-> <<plan.orig[k], plan.copy[plan.orig[k]]>>]]

\* country_data.clone_grid_from_template(TemplateUid, node_uid).  nv is the
\* number of variables the call creates: it fixes the objects of the document
\* afterwards, on which traverse(result['group']) runs.
CloneGrid(node_uid) ==
  /\ scall.op \in {"none", "clone"}
  /\ Cardinality(Clones) < MaxClones
  /\ \E g \in get_grid(TemplateUid, TRUE), nv \in 0..Cardinality(TVars) :
       /\ g.kind = "ok"
       /\ \E plan \in {CopyPlan(g.res[1])} :
            \E made \in {SubSeq(plan.free, 1, nv)} :
              \E doc \in {AfterCopy(plan, made, node_uid)} :
                /\ kind' = doc.kind
                /\ kids' = doc.kids
                /\ \E cache \in {parents_}, c0 \in {cat}, vl \in {kids[VarList]} :
                     \E t \in {(traverse(cache, doc.kids[doc.result][1]))'} :
                       \E st0 \in {[fields |-> doc.fields, cat |-> c0,
                                    variables |-> vl, made |-> <<>>,
                                    free |-> plan.free]} :
                         \E st \in clone_loop(st0, t.res, 1, node_uid) :
                           /\ st.made = made
                           /\ fields' = st.fields
                           /\ cat' = st.cat
                           /\ parents_' = t.cache
                /\ wcall' = [NoWCall EXCEPT !.op = "clone", !.node = doc.result]
                /\ scall' = [NoSCall EXCEPT !.op = "clone", !.kids0 = kids,
                               !.fields0 = fields, !.moved = doc.pairs,
                               !.valid0 = SomeUids({node_uid})]
  /\ UNCHANGED <<item, registered, snapshot, nmut, call, svars>>

CloneNext == \E node_uid \in NewNodes : CloneGrid(node_uid)

SpecClone == CloneStart /\ [][CloneNext]_vars

\* ------------------------------------------------------------ grid repair
\* the template_node_uid of a node: the node of the template grid, or a
\* metadata node that no grid is for
NoGridUid == "t-9"
\* a parent_uid that reparent_nodes could not resolve
DanglingUid == "p-9"

\* the fields of a country node: uid, and template_node_uid and parent_uid
\* when given
FixNodeFields(uid, tu, pu) ==
  [f \in {"uid"} \cup (IF tu = "absent" THEN {} ELSE {"template_node_uid"})
                 \cup (IF pu = "absent" THEN {} ELSE {"parent_uid"}) |->
     IF f = "uid" THEN uid ELSE IF f = "template_node_uid" THEN tu ELSE pu]

\* CountryData.__init__ and Metadata.__init__ on the two documents: the
\* country data holds the nodes with the fields nf and no grid, the metadata
\* the template grid, its groups as in CloneInit
FixInit(pg, sh, nf) ==
  LET holds(j) == SortedSeq({TGroupList + i : i \in {x \in 1..MaxGroups : pg[x] = j}})
  IN /\ kind = [n \in FHandles |->
                  IF n \in {Root, FMeta} THEN "root"
                  ELSE IF n \in {Csd, Template} \cup TGroups \cup FixNodes THEN "dict"
                  ELSE IF n \in {NodeList, VarList, GridList, TGroupList, FMetaGrids}
                       THEN "list"
                  ELSE IF \E g \in TGroups : n = GroupList(g) /\ holds(g - TGroupList) # <<>>
                       THEN "list"
                  ELSE "free"]
     /\ kids = [n \in FHandles |->
                  IF n = Root THEN <<Csd>>
                  ELSE IF n = Csd THEN <<NodeList, VarList, GridList>>
                  ELSE IF n = NodeList THEN <<FixNode1, FixNode2>>
                  ELSE IF n = FMeta THEN <<FMetaGrids>>
                  ELSE IF n = FMetaGrids THEN <<Template>>
                  ELSE IF n = Template THEN <<TGroupList>>
                  ELSE IF n = TGroupList THEN holds(0)
                  ELSE IF n \in TGroups /\ holds(n - TGroupList) # <<>>
                       THEN <<GroupList(n)>>
                  ELSE IF \E g \in TGroups : n = GroupList(g)
                       THEN holds(n - MaxGroups - TGroupList)
                  ELSE <<>>]
     /\ fields = [n \in FHandles |->
                    IF n = Template THEN [f \in {"node_uid"} |-> TemplateUid]
                    ELSE IF n \in TGroups THEN GroupFields(sh[n - TGroupList], n - TGroupList)
                    ELSE IF n \in FixNodes THEN nf[n]
                    ELSE EmptyDict]
     /\ \E t1 \in {traverse(EmptyDict, NodeList)} :
          \E t2 \in {traverse(t1.cache, GridList)} :
            /\ parents_ = t2.cache
            /\ grid_index = index_iterable(NewCatalog(GridIndexes), t2.res)
     /\ cat = index_iterable(NewCatalog(VarIndexes), kids[VarList])
     /\ NoCatHistory
     /\ wcall = NoWCall
     /\ scall = NoSCall
     /\ locate_cache = EmptyDict

\* the template's groups lie side by side or one in the other; the nodes
\* carry a uid each
FixStart ==
  \E nested \in BOOLEAN,
     sh \in [1..MaxGroups -> {"v1", "null"}],
     u2 \in NewNodes,
     tu \in [FixNodes -> {"absent", TemplateUid, NoGridUid}],
     pu \in [FixNodes -> {"absent", DanglingUid}] :
    FixInit([i \in 1..MaxGroups |-> IF nested THEN i - 1 ELSE 0], sh,
            [n \in FixNodes |->
               FixNodeFields(IF n = FixNode1 THEN "n1" ELSE u2, tu[n], pu[n])])

\* What gc.get_referrers can report in the session: the catalogs hold every
\* indexed object, the instance dict the cached properties; the order of the
\* referrers is the collector's.
FEnvs ==
  {[held |-> cat.items \cup grid_index.items \cup FixNodes
               \cup {Csd, NodeList, VarList, GridList},
    extFirst |-> e, desc |-> d] : e \in BOOLEAN, d \in BOOLEAN}

\* fix_node_grid ends without a change of the document: it returned, or
\* raised the exception `result`
FixEnds(node, result, cache) ==
  /\ scall' = [NoSCall EXCEPT !.op = "fix_node_grid", !.kind = result,
                 !.kids0 = kids, !.fields0 = fields]
  /\ wcall' = [NoWCall EXCEPT !.op = "fix_node_grid", !.node = node]
  /\ parents_' = cache
  /\ UNCHANGED <<kind, kids, fields, cat, grid_index>>

FixClones_unindexed(node, g, cache0) ==
  \E nv \in 0..Cardinality(TVars), node_uid \in {fields[node]["uid"]} :
    \E plan \in {CopyPlan(g)} :
      \E made \in {SubSeq(plan.free, 1, nv)} :
        \E doc \in {AfterCopy(plan, made, node_uid)} :
          /\ kind' = doc.kind
          /\ kids' = [doc.kids EXCEPT ![GridList] = Append(@, doc.result)]
          /\ \E c0 \in {cat}, gi \in {grid_index}, vl \in {kids[VarList]} :
               \E t \in {(traverse(cache0, doc.kids[doc.result][1]))'} :
                 \E st0 \in {[fields |-> doc.fields, cat |-> c0,
                              variables |-> vl, made |-> <<>>,
                              free |-> plan.free]} :
                   \E st \in clone_loop(st0, t.res, 1, node_uid) :
                     /\ st.made = made
                     /\ fields' = st.fields
                     /\ cat' = st.cat
                     /\ parents_' = t.cache
                     /\ grid_index' = gi
          /\ wcall' = [NoWCall EXCEPT !.op = "fix_node_grid", !.node = node,
                         !.res = <<doc.result>>]
          /\ scall' = [NoSCall EXCEPT !.op = "fix_node_grid", !.kids0 = kids,
                         !.fields0 = fields, !.moved = doc.pairs]

\* fix_node_grid clones the template grid g for node: clone_grid_from_template
\* as in CloneGrid, then self.grids.append(new_grid) and
\* self.grid_index.index(new_grid)
FixClones(node, g, cache0) ==
  \E nv \in 0..Cardinality(TVars), node_uid \in {fields[node]["uid"]} :
    \E plan \in {CopyPlan(g)} :
      \E made \in {SubSeq(plan.free, 1, nv)} :
        \E doc \in {AfterCopy(plan, made, node_uid)} :
          /\ kind' = doc.kind
          /\ kids' = [doc.kids EXCEPT ![GridList] = Append(@, doc.result)]
          /\ \E c0 \in {cat}, gi \in {grid_index}, vl \in {kids[VarList]} :
               \E t \in {(traverse(cache0, doc.kids[doc.result][1]))'} :
                 \E st0 \in {[fields |-> doc.fields, cat |-> c0,
                              variables |-> vl, made |-> <<>>,
                              free |-> plan.free]} :
                   \E st \in clone_loop(st0, t.res, 1, node_uid) :
                     /\ st.made = made
                     /\ fields' = st.fields
                     /\ cat' = st.cat
                     /\ parents_' = t.cache
                     /\ grid_index' = index(gi, st.fields[doc.result], doc.result)
          /\ wcall' = [NoWCall EXCEPT !.op = "fix_node_grid", !.node = node,
                         !.res = <<doc.result>>]
          /\ scall' = [NoSCall EXCEPT !.op = "fix_node_grid", !.kids0 = kids,
                         !.fields0 = fields, !.moved = doc.pairs]

\* country_data.fix_node_grid(node), called by the loop of the fix command
\* over traverse(country_data.nodes); an exception ends the command.  The
\* arguments of the debug log are evaluated whatever the log level, so
\* json_path(node) runs before the clone.  deepcopy(None) is None, and
\* None['node_uid'] = node_uid raises TypeError.
FixNodeGrid(node) ==
  /\ scall.kind = "ok"
  /\ IF "template_node_uid" \notin DOMAIN fields[node]
     THEN FixEnds(node, "ok", parents_)
     ELSE \E own \in get_grid(fields[node]["uid"], FALSE) :
            IF own.kind # "None"
            THEN FixEnds(node, own.kind, parents_)
            ELSE \E env \in FEnvs :
                   \E p \in {json_path(parents_, node, env)} :
                     IF p.kind # "ok"
                     THEN FixEnds(node, p.kind, p.cache)
                     ELSE \E g \in get_grid(fields[node]["template_node_uid"], TRUE) :
                            IF g.kind = "None" THEN FixEnds(node, "TypeError", p.cache)
                            ELSE IF g.kind # "ok" THEN FixEnds(node, g.kind, p.cache)
                            ELSE FixClones(node, g.res[1], p.cache)
  /\ UNCHANGED <<item, registered, snapshot, nmut, call, locate_cache>>

FixNext == \E node \in FixNodes : FixNodeGrid(node)

SpecFix == FixStart /\ [][FixNext]_vars

\* ------------------------------------------------------- sector closure
\* The filter command works on two documents: the country data (root, Csd,
\* the node list with its MaxTop nodes, a variable list with one variable, an
\* object nested under the first node when `nested`) and the metadata (its own
\* JSONTreeRoot holding 'Metadata': [object]; the object holds the node list,
\* the dimension instances and the variables).  The metadata nodes are
\* MNode1 with the nested MNode2, and MNode3.
SBase == NodeList + 2 * MaxTop
Nested == SBase + 1
CVarList == SBase + 2
CVar == SBase + 3
MRoot == SBase + 4
MetaList == SBase + 5
MetaObj == SBase + 6
MNodeList == SBase + 7
MDimList == SBase + 8
MVarList == SBase + 9
MNode1 == SBase + 10
MNode1List == SBase + 11
MNode2 == SBase + 12
MNode3 == SBase + 13
MDim == SBase + 14
MVar1 == SBase + 15
MVar2 == SBase + 16
SHandles == 0..MVar2

\* the uids of the metadata nodes (uuid4 values)
MetaUid(n) == IF n = MNode1 THEN "s-1" ELSE IF n = MNode2 THEN "s-2" ELSE "o-1"
SectorUids == {"s-1", "s-2", "o-1"}
NestedUid == "k"

\* the attributes of Metadata.dimension_instance_index
DimIndexes == {"uid", "name"}

\* the fields of a country node: its uid, parent_uid when pu # "absent" and
\* template_node_uid (null or the uid of a metadata node)
SectorNodeFields(n, pu, tu) ==
  [f \in {"uid", "template_node_uid"} \cup (IF pu = "absent" THEN {} ELSE {"parent_uid"}) |->
     IF f = "uid" THEN LocalUid(n)
     ELSE IF f = "parent_uid" THEN pu ELSE tu]

\* Metadata.__init__ and CountryData.__init__ on the two documents; the
\* traversals that build the catalogs fill the parent cache.
SectorInit(pu, tu, nested) ==
  /\ kind = [n \in SHandles |->
               IF n \in {Root, MRoot} THEN "root"
               ELSE IF n \in {NodeList, CVarList, MetaList, MNodeList, MDimList,
                              MVarList, MNode1List} THEN "list"
               ELSE IF n = ChildList(FirstNode) /\ nested THEN "list"
               ELSE IF n \in {Csd, CVar, MetaObj, MNode1, MNode2, MNode3, MDim,
                              MVar1, MVar2} \cup TopNodes THEN "dict"
               ELSE IF n = Nested /\ nested THEN "dict"
               ELSE "free"]
  /\ kids = [n \in SHandles |->
               IF n = Root THEN <<Csd>>
               ELSE IF n = Csd THEN <<NodeList, CVarList>>
               ELSE IF n = NodeList THEN [i \in 1..MaxTop |-> NodeList + i]
               ELSE IF n = FirstNode /\ nested THEN <<ChildList(n)>>
               ELSE IF n = ChildList(FirstNode) /\ nested THEN <<Nested>>
               ELSE IF n = CVarList THEN <<CVar>>
               ELSE IF n = MRoot THEN <<MetaList>>
               ELSE IF n = MetaList THEN <<MetaObj>>
               ELSE IF n = MetaObj THEN <<MNodeList, MDimList, MVarList>>
               ELSE IF n = MNodeList THEN <<MNode1, MNode3>>
               ELSE IF n = MNode1 THEN <<MNode1List>>
               ELSE IF n = MNode1List THEN <<MNode2>>
               ELSE IF n = MDimList THEN <<MDim>>
               ELSE IF n = MVarList THEN <<MVar1, MVar2>>
               ELSE <<>>]
  /\ fields = [n \in SHandles |->
                 IF n \in TopNodes THEN SectorNodeFields(n, pu[n], tu[n])
                 ELSE IF n = Nested /\ nested THEN [f \in {"uid"} |-> NestedUid]
                 ELSE IF n = CVar
                      THEN [f \in {"uid", "node_uid"} |->
                              IF f = "uid" THEN "cv" ELSE LocalUid(FirstNode)]
                 ELSE IF n \in {MNode1, MNode2, MNode3}
                      THEN [f \in {"uid"} |-> MetaUid(n)]
                 ELSE IF n = MDim THEN [f \in {"uid"} |-> MetaUid(MNode1)]
                 ELSE IF n \in {MVar1, MVar2}
                      THEN [f \in {"uid", "node_uid"} |->
                              IF f = "uid" THEN (IF n = MVar1 THEN "mv1" ELSE "mv2")
                              ELSE IF n = MVar1 THEN MetaUid(MNode2)
                              ELSE MetaUid(MNode3)]
                 ELSE EmptyDict]
  /\ \E t1 \in {traverse(EmptyDict, MNodeList)} :
       \E t2 \in {traverse(t1.cache, MDim)} :
         \E t3 \in {traverse(t2.cache, NodeList)} :
           /\ parents_ = t3.cache
           /\ cat = index_iterable(NewCatalog(NodeIndexes), t3.res)
  /\ NoCatHistory
  /\ wcall = NoWCall
  /\ scall = NoSCall
  /\ NoSession

SectorStart ==
  \E pu \in [TopNodes -> {"absent", MetaUid(MNode1)} \cup {LocalUid(n) : n \in TopNodes}],
     tu \in [TopNodes -> {"None", MetaUid(MNode1)}],
     nested \in BOOLEAN :
    SectorInit(pu, tu, nested)

\* What gc.get_referrers can report here: the catalogs' items dicts hold the
\* indexed objects, the instance dicts hold the cached node lists.
SEnvs ==
  {[held |-> cat.items \cup {NodeList, MNodeList, MNode1, MNode2, MNode3, MDim},
    extFirst |-> e, desc |-> FALSE] : e \in BOOLEAN}

\* Metadata.node_index and Metadata.dimension_instance_index: nothing changes
\* the metadata after __init__ built them
metadata_node_index ==
  index_iterable(NewCatalog(NodeIndexes), traverse(EmptyDict, MNodeList).res)
dimension_instance_index ==
  index_iterable(NewCatalog(DimIndexes), traverse(EmptyDict, MDim).res)

\* The loops of Metadata.collect_sector_uids over the found objects:
\* json_path for the log, then sector_uids.update(collect_uids(object)).
RECURSIVE collect_found(_, _, _, _, _)
collect_found(cache, found, k, uids, env) ==
  IF k > Len(found) THEN [kind |-> "ok", cache |-> cache, uids |-> uids]
  ELSE LET after(r) ==
             IF r.kind # "ok" THEN [kind |-> r.kind, cache |-> r.cache, uids |-> uids]
             ELSE collect_found(r.cache, found, k + 1, uids \cup r.uids, env)
           logged(p) ==
             IF p.kind # "ok" THEN [kind |-> p.kind, cache |-> p.cache, uids |-> uids]
             ELSE CHOOSE x \in {after(r) : r \in {collect_uids(p.cache, found[k], env)}} : TRUE
       IN CHOOSE x \in {logged(p) : p \in {json_path(cache, found[k], env)}} : TRUE

\* the third loop of Metadata.collect_sector_uids
owned_variables(variables, nodes) ==
  {fields[v]["uid"] : v \in {x \in Range(variables) :
                               Get(fields[x], "node_uid", "None") \in nodes}}

\* Metadata.collect_sector_uids({'uid': uid}): the structure returned, for
\* the orders in which the two searches list what they find
metadata_collect_sector_uids(cache, uid, env) ==
  {LET nodes == collect_found(cache, n.res, 1, {}, env)
       dis == collect_found(nodes.cache, d.res, 1, {}, env)
   IN [kind |-> IF nodes.kind # "ok" THEN nodes.kind ELSE dis.kind,
       cache |-> dis.cache,
       nodes |-> nodes.uids,
       dimension_instances |-> dis.uids,
       variables |-> owned_variables(kids[MVarList], nodes.uids)] :
   n \in search_results(metadata_node_index, <<<<"uid", uid>>>>),
   d \in search_results(dimension_instance_index, <<<<"uid", uid>>>>)}

\* the inner loop of CountryData.collect_sector_uids:
\* for child in self.traverse(node): sector_uids.add(child['uid'])
uids_under(objects) == {fields[x]["uid"] : x \in Range(objects)}

\* the loop of CountryData.collect_sector_uids from the k-th node of the list
RECURSIVE country_loop(_, _, _, _)
country_loop(cache, nodes, k, sector_uids) ==
  IF k > Len(nodes) THEN [cache |-> cache, uids |-> sector_uids]
  ELSE IF "parent_uid" \in DOMAIN fields[nodes[k]]
          /\ fields[nodes[k]]["parent_uid"] \in sector_uids
       THEN CHOOSE x \in
              {country_loop(t.cache, nodes, k + 1, sector_uids \cup uids_under(t.res)) :
                 t \in {traverse(cache, nodes[k])}} : TRUE
       ELSE country_loop(cache, nodes, k + 1, sector_uids)

\* country_data.collect_sector_uids(metadata.get_sector_filter(uid))
CollectSectorUids ==
  /\ scall.op = "none"
  /\ \E uid \in SectorUids, env \in SEnvs :
       \E m \in metadata_collect_sector_uids(parents_, uid, env) :
         /\ m.kind = "ok"
         /\ \E r \in {country_loop(m.cache, kids[NodeList], 1, m.nodes)} :
              /\ parents_' = r.cache
              /\ scall' = [NoSCall EXCEPT !.op = "collect_sector_uids",
                             !.kids0 = kids, !.fields0 = fields,
                             !.valid0 = SomeUids(m.nodes),
                             !.valid = SomeUids(r.uids),
                             !.variables = m.variables,
                             !.dimension_instances = m.dimension_instances]
  /\ wcall' = NoWCall
  /\ UNCHANGED <<kind, kids, fields, cvars, svars>>

\* the predicate of the filter command for the nodes
node_in_sector(n, sector_node_uids) ==
  \/ fields[n]["uid"] \in sector_node_uids
  \/ Get(fields[n], "parent_uid", "None") \in sector_node_uids
  \/ Get(fields[n], "template_node_uid", "None") \in sector_node_uids

\* the predicate of the filter command for the variables
variable_in_sector(v, sector_variable_uids, sector_node_uids) ==
  \/ fields[v]["uid"] \in sector_variable_uids
  \/ Get(fields[v], "node_uid", "None") \in sector_node_uids

\* The first loop of filter_out(country_data.nodes, predicate,
\* sector_node_uids): the predicate reads the set that the loop grows.
RECURSIVE filter_nodes_loop(_, _, _, _)
filter_nodes_loop(item_list, k, sector_node_uids, to_delete) ==
  IF k > Len(item_list)
  THEN [to_delete |-> to_delete, uids |-> sector_node_uids]
  ELSE IF node_in_sector(item_list[k], sector_node_uids)
       THEN filter_nodes_loop(item_list, k + 1,
                              sector_node_uids \cup {fields[item_list[k]]["uid"]},
                              to_delete)
       ELSE filter_nodes_loop(item_list, k + 1, sector_node_uids,
                              Append(to_delete, k))

\* the same for filter_out(country_data.variables, predicate,
\* sector_variable_uids)
RECURSIVE filter_variables_loop(_, _, _, _, _)
filter_variables_loop(item_list, k, sector_variable_uids, sector_node_uids, to_delete) ==
  IF k > Len(item_list)
  THEN [to_delete |-> to_delete, uids |-> sector_variable_uids]
  ELSE IF variable_in_sector(item_list[k], sector_variable_uids, sector_node_uids)
       THEN filter_variables_loop(item_list, k + 1,
                                  sector_variable_uids \cup {fields[item_list[k]]["uid"]},
                                  sector_node_uids, to_delete)
       ELSE filter_variables_loop(item_list, k + 1, sector_variable_uids,
                                  sector_node_uids, Append(to_delete, k))

\* the node pass of the filter command
FilterNodes ==
  /\ scall.op = "collect_sector_uids"
  /\ \E r \in {filter_nodes_loop(kids[NodeList], 1, scall.valid.uids, <<>>)} :
       /\ kids' = [kids EXCEPT ![NodeList] = delete_indices(@, Reversed(r.to_delete))]
       /\ scall' = [scall EXCEPT !.op = "filter_nodes", !.kids0 = kids,
                      !.fields0 = fields, !.deleted = r.to_delete,
                      !.valid0 = scall.valid, !.valid = SomeUids(r.uids)]
  /\ UNCHANGED <<kind, fields, parents_, wcall, cvars, svars>>

\* the variable pass of the filter command (the document carries no grids,
\* line descriptions or data values for the later passes)
FilterVariables ==
  /\ scall.op = "filter_nodes"
  /\ \E r \in {filter_variables_loop(kids[CVarList], 1, scall.variables,
                                     scall.valid.uids, <<>>)} :
       /\ kids' = [kids EXCEPT ![CVarList] = delete_indices(@, Reversed(r.to_delete))]
       /\ scall' = [scall EXCEPT !.op = "filter_variables", !.kids0 = kids,
                      !.fields0 = fields, !.deleted = r.to_delete,
                      !.variables = r.uids]
  /\ UNCHANGED <<kind, fields, parents_, wcall, cvars, svars>>

SectorNext ==
  \/ CollectSectorUids
  \/ FilterNodes
  \/ FilterVariables

SpecSector == SectorStart /\ [][SectorNext]_vars

\* ------------------------------------------------------ catalog claims
\* the constraint attr = value as keyword arguments
Single(a, v) == <<<<a, v>>>>

\* The registered objects whose snapshot of their last index() call has a = v.
Matching(a, v) ==
  {i \in registered : a \in DOMAIN snapshot[i] /\ snapshot[i][a] = v}

\* The registered objects whose snapshot satisfies every constraint of cr.
MatchingAll(cr) ==
  {i \in registered :
     \A k \in DOMAIN cr :
       cr[k][1] \in DOMAIN snapshot[i] /\ snapshot[i][cr[k][1]] = cr[k][2]}

Configured == {cr \in Criteria : ~Unknown(cr)}

\* C1: after any sequence of index, unindex and clear calls (and field changes
\* between them), search(attr=v) for a configured attribute returns exactly
\* the registered objects whose snapshot of their last index call has
\* attr = v: none missing, none extra, none twice.
C1_SearchExact ==
  \A a \in Indexes, v \in Values :
    /\ search(cat, Single(a, v)).kind = "ok"
    /\ \A r \in search_results(cat, Single(a, v)) :
         /\ Range(r.res) = Matching(a, v)
         /\ Len(r.res) = Cardinality(Matching(a, v))

\* a single-constraint search has returned object 1, which was changed after
\* it was indexed, while object 2 is not registered
C1_Witness ==
  /\ call.op = "search" /\ call.arg = 1 /\ call.res = <<1>>
  /\ registered = {1}
  /\ snapshot[1] # item[1]
  /\ \E a \in Indexes :
       /\ a \in DOMAIN snapshot[1] /\ a \in DOMAIN item[2]
       /\ Matching(a, item[2][a]) = {1}

\* C2: for every non-empty criteria mapping over configured attributes, the
\* set search(criteria) returns is the intersection of the sets returned by
\* the single-constraint searches, one per entry.
C2_SearchIsIntersection ==
  \A cr \in Configured :
    /\ search(cat, cr).kind = "ok"
    /\ search(cat, cr).ids =
         {i \in Items :
            \A k \in DOMAIN cr : i \in search(cat, Single(cr[k][1], cr[k][2])).ids}

\* a two-constraint search has returned one object although one of its two
\* constraints alone matches two
C2_Witness ==
  /\ call.op = "search" /\ call.arg = 2 /\ Len(call.res) = 1
  /\ \E cr \in Configured :
       /\ Len(cr) = 2
       /\ search(cat, cr).ids = Range(call.res)
       /\ Cardinality(search(cat, Single(cr[1][1], cr[1][2])).ids) = 2

\* exactly one position of list l holds x
Once(l, x) == Cardinality({k \in DOMAIN l : l[k] = x}) = 1

\* C3: re-indexing a registered object after a configured attribute changed
\* from v to w (or was removed) removes the stale snapshot: search(attr=v) no
\* longer returns it, search(attr=w) returns it exactly once (no value of attr
\* returns it if the attribute was removed), and it is still found, once,
\* under its unchanged attributes.
C3_ReindexDropsStale ==
  (call.op = "index" /\ call.again) =>
    LET i == call.arg
        old == call.old
    IN \A a \in Indexes :
         /\ (a \in DOMAIN old /\ Get(item[i], a, "NOT_PRESENT") # old[a])
              => i \notin search(cat, Single(a, old[a])).ids
         /\ a \in DOMAIN item[i]
              => /\ \A r \in search_results(cat, Single(a, item[i][a])) :
                      Once(r.res, i)
                 /\ \A v \in Values \ {item[i][a]} :
                      i \notin search(cat, Single(a, v)).ids
         /\ a \notin DOMAIN item[i]
              => \A v \in Values : i \notin search(cat, Single(a, v)).ids

\* index() has just re-registered an object whose fields had changed since its
\* previous index() call: one attribute has another value, or is gone
C3_Witness ==
  /\ call.op = "index" /\ call.again
  /\ call.arg \in registered
  /\ \E a \in DOMAIN call.old :
       Get(item[call.arg], a, "NOT_PRESENT") # call.old[a]
  /\ \E b \in DOMAIN call.old :
       b \in DOMAIN item[call.arg] /\ item[call.arg][b] = call.old[b]

\* C4: re-indexing a registered object whose attributes have not changed
\* leaves the catalog's items, snapshots and buckets as they were after the
\* first call, and so every search result.
C4_ReindexIdempotent ==
  (call.op = "index" /\ call.again /\ call.old = item[call.arg]) =>
    /\ call.same
    /\ cat.values[call.arg] = call.old
    /\ \A a \in Indexes, v \in Values :
         search(cat, Single(a, v)).ids = Matching(a, v)

\* index() has just re-registered an unchanged object that shares a bucket
\* with another registered object
C4_Witness ==
  /\ call.op = "index" /\ call.again /\ call.old = item[call.arg]
  /\ \E a \in Indexes, v \in Values :
       call.arg \in Matching(a, v) /\ Cardinality(Matching(a, v)) = 2

\* C5: an attribute absent on an object is not indexed for it and is not a
\* null: search(attr=None) returns the registered objects whose attr was
\* present and None, and an object registered without attr is returned by no
\* search that constrains attr.
C5_AbsentIsNotNone ==
  \A a \in Indexes :
    /\ search(cat, Single(a, "None")).ids =
         {i \in registered : a \in DOMAIN snapshot[i] /\ snapshot[i][a] = "None"}
    /\ \A i \in registered :
         a \notin DOMAIN snapshot[i] =>
           \A cr \in Configured :
             (\E k \in DOMAIN cr : cr[k][1] = a) => i \notin search(cat, cr).ids

\* with an object holding an explicit None and one lacking the attribute both
\* registered, a single-constraint search has returned only the former
C5_Witness ==
  /\ call.op = "search" /\ call.arg = 1
  /\ \E a \in Indexes, i, j \in registered :
       /\ a \in DOMAIN snapshot[i] /\ snapshot[i][a] = "None"
       /\ a \notin DOMAIN snapshot[j]
       /\ Matching(a, "None") = {i}
       /\ call.res = <<i>>
       /\ \A b \in Indexes \ {a}, v \in Values : Matching(b, v) # {i}

\* C6: one(criteria) returns the object when exactly one registered object
\* matches all criteria, fails with the "Multiple" ValueError when more than
\* one matches and with the "No items" ValueError when none matches;
\* first(criteria) returns None on zero matches and otherwise a member of
\* search(criteria); neither call changes the catalog or the objects.
C6_OneAndFirst ==
  /\ call.op \in {"one", "first"} => call.same
  /\ \A cr \in Configured :
       LET m == MatchingAll(cr)
       IN /\ Cardinality(m) = 1 =>
               one(cat, cr) = {[kind |-> "ok", res |-> <<i>>] : i \in m}
          /\ Cardinality(m) > 1 =>
               one(cat, cr) = {[kind |-> "ValueError_multiple", res |-> <<>>]}
          /\ Cardinality(m) = 0 =>
               /\ one(cat, cr) = {[kind |-> "ValueError_none", res |-> <<>>]}
               /\ first(cat, cr) = {[kind |-> "None", res |-> <<>>]}
          /\ Cardinality(m) > 0 =>
               \A r \in first(cat, cr) :
                 /\ r.kind = "ok" /\ Len(r.res) = 1
                 /\ r.res[1] \in search(cat, cr).ids

\* one() has just failed because two registered objects match
C6_Witness ==
  /\ call.op = "one" /\ call.kind = "ValueError_multiple"
  /\ \E cr \in Configured : Cardinality(MatchingAll(cr)) = 2

\* C7: every search/first/one call whose criteria name an attribute the
\* catalog was not configured with fails with an error, whatever the other
\* criteria of the call and their order.
C7_UnknownAttributeFails ==
  (call.op \in {"search", "first", "one"} /\ call.unk) => call.kind = "KeyError"

\* ------------------------------------------------------- walker claims
\* The objects of the subtree of n in depth-first pre-order, the values of
\* each container from left to right.
RECURSIVE PreOrder(_)
RECURSIVE PreOrderAll(_)
PreOrder(n) ==
  IF ~is_json_container(n) THEN <<>>
  ELSE (IF is_object(n) THEN <<n>> ELSE <<>>) \o PreOrderAll(kids[n])
PreOrderAll(ch) ==
  IF Len(ch) = 0 THEN <<>> ELSE PreOrder(ch[1]) \o PreOrderAll(Tail(ch))

\* The containers on the way from a down to the holder of x, a first,
\* for x in the subtree of a and x # a.
RECURSIVE WayDown(_, _)
WayDown(a, x) ==
  IF \E k \in DOMAIN kids[a] : kids[a][k] = x THEN <<a>>
  ELSE LET c == CHOOSE c \in Range(kids[a]) : x \in Subtree(c)
       IN <<a>> \o WayDown(c, x)

\* C8: traverse(start) yields every object container reachable from start
\* exactly once, never an array or a scalar, in depth-first pre-order with
\* the children of each container left to right; a second call on the
\* unmodified document yields the same sequence.
C8_TraversePreOrder ==
  wcall.op = "traverse" =>
    /\ wcall.res = PreOrder(wcall.node)
    /\ Range(wcall.res) = {n \in Subtree(wcall.node) : is_object(n)}
    /\ Len(wcall.res) = Cardinality(Range(wcall.res))
    /\ \A k \in DOMAIN wcall.res : kind[wcall.res[k]] \in {"root", "dict"}
    /\ traverse(parents_, wcall.node).res = wcall.res

\* a traversal has yielded at least three objects, the last of them a later
\* sibling of a container whose own child was yielded before it, and has
\* passed through an array without yielding it
C8_Witness ==
  /\ wcall.op = "traverse"
  /\ Len(wcall.res) >= 3
  /\ \E k \in 1..(Len(wcall.res) - 1) : wcall.res[k] > wcall.res[k + 1]
  /\ \E n \in Subtree(wcall.node) : kind[n] = "list"

\* C9: parents(x) of a non-root container x reachable from the root is the
\* sequence (root, ..., direct parent of x), each element holding the next and
\* the last holding x, whatever earlier calls left in the parent cache;
\* afterwards the cache maps every node of the chain, and x, to its parent.
C9_ParentsChain ==
  (wcall.op = "parents" /\ wcall.node # Root) =>
    LET x == wcall.node
        chain == Append(wcall.res, x)
    IN /\ wcall.kind = "ok"
       /\ wcall.res = WayDown(Root, x)
       /\ wcall.res[1] = Root
       /\ \A k \in 1..(Len(chain) - 1) :
            /\ \E j \in DOMAIN kids[chain[k]] : kids[chain[k]][j] = chain[k + 1]
            /\ chain[k + 1] \in DOMAIN parents_
            /\ parents_[chain[k + 1]] = chain[k]

\* parents() has returned a chain of two or more containers while the cache
\* also held entries of nodes outside the chain, left by earlier calls
C9_Witness ==
  /\ wcall.op = "parents" /\ wcall.kind = "ok"
  /\ Len(wcall.res) >= 2
  /\ \E n \in DOMAIN parents_ : n \notin Range(wcall.res) \cup {wcall.node}

\* C10: for every container x of a tree-shaped document, the root included
\* and whatever the field names, locate(json_path(x)) is x itself.
C10_PathRoundTrip ==
  wcall.op = "locate" => (wcall.kind = "ok" /\ wcall.res = <<wcall.node>>)

\* the selector of the edge parent -> child taken by identity: the key or the
\* index at which that very object is held
OwnSelector(parent, child) ==
  LET k == CHOOSE k \in DOMAIN kids[parent] : kids[parent][k] = child
  IN IF is_object(parent) THEN <<".">> \o KeyAt(k)
     ELSE <<"[">> \o str_int(k - 1) \o <<"]">>

\* C11: every selector of the path json_path emits for a non-root container
\* is the key or index at which that exact object is held; for an element of
\* an array it is the element's own index, never that of an earlier
\* value-equal sibling.
C11_SelectorByIdentity ==
  (wcall.op = "json_path" /\ wcall.node # Root) =>
    LET chain == Append(WayDown(Root, wcall.node), wcall.node)
    IN /\ wcall.kind = "ok"
       /\ wcall.path = join([k \in 1..(Len(chain) - 1) |->
                               OwnSelector(chain[k], chain[k + 1])])

\* C19: no (attribute, value) bucket of the catalog is empty and none holds
\* the identity of an object that is not indexed now; after unindex(item) the
\* item is in no bucket, also when its attributes were changed after index().
C19_BucketsCleanAfterUnindex ==
  /\ \A a \in DOMAIN cat.indexes : \A v \in DOMAIN cat.indexes[a] :
       /\ cat.indexes[a][v] # {}
       /\ cat.indexes[a][v] \subseteq cat.items
  /\ DOMAIN cat.values = cat.items
  /\ call.op = "unindex" =>
       /\ call.arg \notin cat.items
       /\ \A a \in DOMAIN cat.indexes : \A v \in DOMAIN cat.indexes[a] :
            call.arg \notin cat.indexes[a][v]

\* unindex() has removed an object that was registered and whose fields had
\* been changed since its index() call, while another object stays indexed
C19_Witness ==
  /\ call.op = "unindex" /\ call.again
  /\ call.old # item[call.arg]
  /\ cat.items # {}

\* C12: whenever the path of a node that is not reachable from the root is
\* requested, json_path returns the sentinel broken-path string and no error
\* escapes, also for a node that was removed from its list after its parent
\* link had been cached.
C12_UnreachableGivesSentinel ==
  (wcall.op = "json_path" /\ wcall.node \notin Subtree(Root)) =>
    (wcall.kind = "ok" /\ wcall.path = BrokenPath)

\* C13: after a completed tree-surgery operation the parent cache holds no
\* stale entry: every entry maps a node to a container of the document that
\* directly contains it.
C13_NoStaleParents ==
  (scall.op # "none" /\ scall.kind = "ok") =>
    \A n \in DOMAIN parents_ :
      /\ parents_[n] \in Subtree(Root)
      /\ \E k \in DOMAIN kids[parents_[n]] : kids[parents_[n]][k] = n

\* C16: after filter_out with a predicate that does not change during the
\* pass, the list holds exactly the original elements for which the predicate
\* is true, each once, the same objects in their original relative order, and
\* no element for which it is false.
C16_FilterKeepsSurvivors ==
  scall.op = "filter_out" =>
    LET before == scall.kids0[NodeList]
        InKeep(n) == n \in scall.keep
    IN /\ kids[NodeList] = SelectSeq(before, InKeep)
       /\ Range(kids[NodeList]) = Range(before) \cap scall.keep
       /\ Cardinality(Range(kids[NodeList])) = Len(kids[NodeList])

\* a pass has deleted two elements that were not adjacent at the end of the
\* list and has kept one after the first of them
C16_Witness ==
  /\ scall.op = "filter_out"
  /\ Len(scall.deleted) >= 2
  /\ Len(kids[NodeList]) >= 1
  /\ \E k \in DOMAIN scall.kids0[NodeList] :
       /\ k > scall.deleted[1]
       /\ scall.kids0[NodeList][k] \in scall.keep

\* the nodes that node_index held under uid = u when the pass began (all the
\* objects under the node list were indexed at construction)
Resolves(u) ==
  {B \in TopNodes : "uid" \in DOMAIN scall.fields0[B] /\ scall.fields0[B]["uid"] = u}

\* top-level node A carried the override marker and a parent_uid when the
\* pass began, neither its uid nor the parent_uid in the metadata format
Override(A) ==
  LET f == scall.fields0[A]
  IN /\ "template_node_uid" \in DOMAIN f /\ "parent_uid" \in DOMAIN f
     /\ f["uid"] # ForeignUid /\ f["parent_uid"] # ForeignUid

\* C14: after reparent_nodes has run to completion, every top-level node A
\* with template_node_uid and a parent_uid that resolves to a present node B
\* (no metadata-format uid involved) is an element of B's child list exactly
\* once, is no longer in the top-level list, no longer carries parent_uid and
\* is found by node_index search(uid=A.uid).
C14_ReparentMovesNode ==
  (scall.op = "reparent" /\ scall.kind = "ok") =>
    \A A \in TopNodes :
      (Override(A) /\ Resolves(scall.fields0[A]["parent_uid"]) # {}) =>
        /\ \E B \in Resolves(scall.fields0[A]["parent_uid"]) :
             /\ kind[ChildList(B)] = "list"
             /\ Once(kids[ChildList(B)], A)
        /\ A \notin Range(kids[NodeList])
        /\ "parent_uid" \notin DOMAIN fields[A]
        /\ A \in search(cat, Single("uid", fields[A]["uid"])).ids

\* C15: a top-level node whose parent_uid resolves to no node of the catalog
\* stays in the top-level list at its place among the unmoved nodes, keeps its
\* parent_uid, is not among the moved pairs; no error is raised and the nodes
\* after it are processed.
C15_DanglingParentSkipped ==
  scall.op = "reparent" =>
    LET before == scall.kids0[NodeList]
        Dangling(A) == /\ "parent_uid" \in DOMAIN scall.fields0[A]
                       /\ Resolves(scall.fields0[A]["parent_uid"]) = {}
        Moved(n) == \E k \in DOMAIN scall.moved : scall.moved[k][1] = n
        Unmoved(n) == ~Moved(n)
    IN (\E A \in TopNodes : Dangling(A)) =>
         /\ scall.kind = "ok"
         /\ kids[NodeList] = SelectSeq(before, Unmoved)
         /\ \A A \in TopNodes : Dangling(A) =>
              /\ A \in Range(kids[NodeList])
              /\ fields[A] = scall.fields0[A]
              /\ Unmoved(A)
         /\ \A k \in DOMAIN before :
              (/\ \E j \in 1..(k - 1) : Dangling(before[j])
               /\ Override(before[k])
               /\ Resolves(scall.fields0[before[k]]["parent_uid"]) # {})
                => Moved(before[k])

\* the catalog JSONCatalog(NodeIndexes, traverse(nodes)) of the document as it
\* is: the objects under the node list under their present field values
UnderNodeList == {n \in Subtree(NodeList) : is_object(n)}
FreshNodeIndex ==
  LET val(n) == [a \in NodeIndexes \cap DOMAIN fields[n] |-> fields[n][a]]
      having(a, v) == {n \in UnderNodeList : a \in DOMAIN fields[n] /\ fields[n][a] = v}
      used(a) == {fields[n][a] : n \in {m \in UnderNodeList : a \in DOMAIN fields[m]}}
  IN [items |-> UnderNodeList,
      values |-> [n \in UnderNodeList |-> val(n)],
      indexes |-> [a \in NodeIndexes |-> [v \in used(a) |-> having(a, v)]]]

\* C20: after reparent_nodes has run to completion, node_index equals the
\* catalog built afresh from traverse(nodes) of the resulting document, so
\* search(parent_uid=B.uid) does not return a node that was moved under B.
C20_CatalogRebuilt ==
  (scall.op = "reparent" /\ scall.kind = "ok") =>
    /\ cat = FreshNodeIndex
    /\ \A k \in DOMAIN scall.moved :
         scall.moved[k][1] \notin
           search(cat, Single("parent_uid",
                              scall.fields0[scall.moved[k][1]]["parent_uid"])).ids

\* a pass has moved two nodes, one of them below the other, while a third node
\* with a parent_uid of its own stayed in the top-level list
C20_Witness ==
  /\ scall.op = "reparent" /\ scall.kind = "ok"
  /\ Len(scall.moved) >= 2
  /\ \E j, k \in DOMAIN scall.moved : scall.moved[j][2] = scall.moved[k][1]
  /\ Len(kids[NodeList]) >= 1
  /\ Cardinality(cat.items) = MaxTop

\* the objects whose uid the closure of m has to contain
Closure(m) ==
  {n \in Subtree(m) \cup (IF m = Root THEN {} ELSE Range(WayDown(Root, m))) :
     is_object(n)}

\* C17: for a container m reachable from the root, collect_uids(m) is the
\* set of the non-null uid values of m, of every object in the subtree of m
\* and of every object ancestor of m; a uid carried only by objects beside
\* these is not in it.
C17_CollectUidsClosure ==
  wcall.op = "collect_uids" =>
    LET m == wcall.node
        own == {n \in Closure(m) : get_uid(n) # "None"}
    IN /\ wcall.kind = "ok"
       /\ scall.valid.uids = {get_uid(n) : n \in own}
       /\ \A n \in Nodes :
            (is_object(n) /\ n \notin Closure(m) /\ get_uid(n) # "None"
             /\ \A x \in Closure(m) : get_uid(x) # get_uid(n))
              => get_uid(n) \notin scall.valid.uids

\* collect_uids was called on an object that has an object ancestor with a
\* uid, a descendant with a uid and a sibling with a uid
C17_Witness ==
  /\ wcall.op = "collect_uids" /\ wcall.kind = "ok"
  /\ wcall.node # Root
  /\ \E a \in Range(WayDown(Root, wcall.node)) : get_uid(a) # "None"
  /\ \E d \in Subtree(wcall.node) \ {wcall.node} : get_uid(d) # "None"
  /\ \E n \in Nodes :
       /\ is_object(n) /\ n \notin Closure(wcall.node)
       /\ get_uid(n) # "None" /\ get_uid(n) \notin scall.valid.uids
  /\ Cardinality(scall.valid.uids) >= 2

\* the (object of the template, copy) pairs of the last clone whose original
\* is a nested group carrying uid and a non-null variable_uid
ClonedGroups ==
  {pr \in Range(scall.moved) :
     /\ pr[1] \in Subtree(TGroupList) /\ scall.kids0 # <<>>
     /\ "uid" \in DOMAIN scall.fields0[pr[1]]
     /\ "variable_uid" \in DOMAIN scall.fields0[pr[1]]
     /\ scall.fields0[pr[1]]["variable_uid"] # "None"}

\* the uid of object n, "None" when it has none
UidOf(fl, n) == Get(fl[n], "uid", "None")

\* C18: the grid clone_grid_from_template returns has node_uid equal to the
\* node_uid given, and each of its nested groups whose original carries uid
\* and a non-null variable_uid has a uid no object carried before the call
\* and no other object carries after it, a template_group_uid equal to the
\* uid of the original, and as variable_uid the uid of a variable of the
\* variable list, known to variable_index, whose node_uid is the node_uid
\* given and whose template_var_uid is the variable_uid of the original; the
\* template is left as it was.
C18_CloneResolvesGroups ==
  scall.op = "clone" =>
    /\ fields[wcall.node]["node_uid"] \in scall.valid0.uids
    /\ \A n \in DOMAIN scall.fields0 :
         scall.kids0[n] # <<>> \/ scall.fields0[n] # EmptyDict =>
           (kids[n] = scall.kids0[n] \/ n = VarList) /\ fields[n] = scall.fields0[n]
    /\ \A pr \in ClonedGroups :
         LET before == scall.fields0[pr[1]]
             after == fields[pr[2]]
         IN /\ after["uid"] # before["uid"]
            /\ \A n \in DOMAIN scall.fields0 : UidOf(scall.fields0, n) # after["uid"]
            /\ \A n \in DOMAIN fields : n # pr[2] => UidOf(fields, n) # after["uid"]
            /\ after["template_group_uid"] = before["uid"]
            /\ \E v \in Range(kids[VarList]) :
                 /\ v \in cat.items
                 /\ fields[v]["uid"] = after["variable_uid"]
                 /\ fields[v]["node_uid"] \in scall.valid0.uids
                 /\ fields[v]["template_var_uid"] = before["variable_uid"]

\* a clone of a template with a nested group has resolved one group to a
\* variable that existed before the call and another to one the call created,
\* while a variable of another node for the same template variable existed
C18_Witness ==
  /\ scall.op = "clone"
  /\ \E pr \in ClonedGroups : pr[1] \notin Range(scall.kids0[TGroupList])
  /\ \E p1 \in ClonedGroups, p2 \in ClonedGroups :
       /\ \E v \in Range(scall.kids0[VarList]) :
            fields[v]["uid"] = fields[p1[2]]["variable_uid"]
       /\ \E v \in Range(kids[VarList]) \ Range(scall.kids0[VarList]) :
            fields[v]["uid"] = fields[p2[2]]["variable_uid"]
  /\ \E v \in Range(scall.kids0[VarList]) :
       fields[v]["node_uid"] \notin scall.valid0.uids

\* C21: filter_out returns the positions in the original list, in increasing
\* order, of the elements for which the predicate was false; their number
\* plus the length of the list afterwards is the original length; a uid set
\* that was supplied ends as its former content united with the uids of the
\* survivors, and no uid set appears when none was supplied.
C21_FilterReturnsDeleted ==
  scall.op = "filter_out" =>
    LET before == scall.kids0[NodeList]
        failed == {k \in DOMAIN before : before[k] \notin scall.keep}
        survivors == {before[k] : k \in (DOMAIN before) \ failed}
    IN /\ Range(scall.deleted) = failed
       /\ Len(scall.deleted) = Cardinality(failed)
       /\ \A k \in 1..(Len(scall.deleted) - 1) :
            scall.deleted[k] < scall.deleted[k + 1]
       /\ Len(scall.deleted) + Len(kids[NodeList]) = Len(before)
       /\ scall.valid.given = scall.valid0.given
       /\ scall.valid.uids =
            IF scall.valid0.given
            THEN scall.valid0.uids \cup {scall.fields0[n]["uid"] : n \in survivors}
            ELSE {}

\* a pass with a uid set has deleted two elements, one of them carrying a uid
\* that no survivor carries, and has kept one
C21_Witness ==
  /\ scall.op = "filter_out"
  /\ scall.valid0.given
  /\ Len(scall.deleted) >= 2
  /\ Len(kids[NodeList]) >= 1
  /\ \E k \in Range(scall.deleted) :
       scall.fields0[scall.kids0[NodeList][k]]["uid"] \notin scall.valid.uids
  /\ scall.valid.uids # scall.valid0.uids

\* C23: after CountryData.collect_sector_uids the node closure holds the uid
\* of every node of the node list whose parent_uid is in the closure, and the
\* uids of the objects nested under it, whatever the order of the list and
\* the number of generations.
C23_ClosureIsFixedPoint ==
  scall.op = "collect_sector_uids" =>
    \A n \in Range(kids[NodeList]) :
      ("parent_uid" \in DOMAIN fields[n]
       /\ fields[n]["parent_uid"] \in scall.valid.uids)
        => \A x \in {y \in Subtree(n) : is_object(y)} :
             fields[x]["uid"] \in scall.valid.uids

\* C22: in the node pass of the filter command, whenever a node fails the
\* predicate and is deleted, every node of the list whose parent_uid is the
\* uid of the deleted node is deleted as well.
C22_ChildrenOfDeletedDeleted ==
  scall.op = "filter_nodes" =>
    LET before == scall.kids0[NodeList]
    IN \A k \in Range(scall.deleted), j \in DOMAIN before :
         ("parent_uid" \in DOMAIN fields[before[j]]
          /\ fields[before[j]]["parent_uid"] = fields[before[k]]["uid"])
           => j \in Range(scall.deleted)

\* the variables of the two documents
AllVariables == Range(scall.kids0[CVarList]) \cup Range(scall.kids0[MVarList])

\* C24: in the structure closure collection returns, the variables set is
\* exactly the set of the uids of the variables whose node_uid is in the
\* nodes set.
C24_VariablesOfClosure ==
  scall.op = "collect_sector_uids" =>
    scall.variables =
      {fields[v]["uid"] : v \in {x \in AllVariables :
                                   fields[x]["node_uid"] \in scall.valid.uids}}

\* the groups of the clones cl that were resolved to a variable, each with
\* the node_uid of its grid and the variable_uid of its original
ResolvedGroups(cl) ==
  UNION {{[group |-> g, node_uid |-> fields[c]["node_uid"],
           template_var_uid |-> fields[o]["variable_uid"]] :
            g \in {x \in Subtree(c) : "template_group_uid" \in DOMAIN fields[x]
                                      /\ fields[x]["template_group_uid"] = fields[o]["uid"]}} :
         c \in cl,
         o \in {x \in TGroups : "uid" \in DOMAIN fields[x]
                                /\ Get(fields[x], "variable_uid", "None") # "None"}}

\* C25: from a variable list with at most one variable per pair (node_uid,
\* template_var_uid), after any sequence of clone calls the list still has at
\* most one variable per pair and holds no object twice, variable_index finds
\* every variable of the list under its pair, and groups of the same or of
\* different clones with the same node and template variable carry the same
\* variable_uid.
C25_OneVariablePerPair ==
  LET variables == kids[VarList]
      pair(v) == <<<<"node_uid", fields[v]["node_uid"]>>,
                   <<"template_var_uid", fields[v]["template_var_uid"]>>>>
  IN /\ \A i, j \in DOMAIN variables :
          (fields[variables[i]]["node_uid"] = fields[variables[j]]["node_uid"]
           /\ fields[variables[i]]["template_var_uid"]
                = fields[variables[j]]["template_var_uid"])
            => i = j
     /\ \A v \in Range(variables) :
          first(cat, pair(v)) = {[kind |-> "ok", res |-> <<v>>]}
     /\ \A resolved \in {ResolvedGroups(cl) : cl \in {Clones}} :
          \A r1, r2 \in resolved :
            (r1.node_uid = r2.node_uid /\ r1.template_var_uid = r2.template_var_uid)
              => fields[r1.group]["variable_uid"] = fields[r2.group]["variable_uid"]

\* two clones for the same node exist; groups of both name a template
\* variable for which the first call had to create the variable, and two
\* groups of one clone name the same template variable
C25_Witness ==
  /\ scall.op = "clone"
  /\ \E resolved \in {ResolvedGroups(cl) : cl \in {Clones}} :
       /\ \E r1, r2 \in resolved :
            /\ r1.node_uid = r2.node_uid /\ r1.template_var_uid = r2.template_var_uid
            /\ \E c1, c2 \in Clones :
                 c1 # c2 /\ r1.group \in Subtree(c1) /\ r2.group \in Subtree(c2)
            /\ \E v \in Range(kids[VarList]) \ {PreVar1, PreVar2} :
                 fields[v]["uid"] = fields[r1.group]["variable_uid"]
       /\ \E r1, r2 \in resolved :
            /\ r1.group # r2.group
            /\ r1.template_var_uid = r2.template_var_uid
            /\ \E c \in Clones : r1.group \in Subtree(c) /\ r2.group \in Subtree(c)

\* the grids of grid list gl (a list of the document before or after a call)
\* that are for node uid
GridsFor(gl, uid) ==
  {k \in DOMAIN gl : Get(fields[gl[k]], "node_uid", "None") = uid}

\* C26: a fix_node_grid call for a node that still carries parent_uid adds no
\* grid and no variable: the lists and fields of the document are as before
\* the call, and grid_index and variable_index hold nothing but the objects
\* the grid list and the variable list held before it.
C26_BrokenNodeSkipped ==
  (scall.op = "fix_node_grid" /\ "parent_uid" \in DOMAIN fields[wcall.node])
    => /\ kids = scall.kids0
       /\ fields = scall.fields0
       /\ grid_index.items \subseteq Range(scall.kids0[GridList])
       /\ cat.items \subseteq Range(scall.kids0[VarList])

\* C27: a fix_node_grid call for a node without a grid whose template_node_uid
\* has no grid in the country data nor in the metadata raises no error and
\* leaves the lists and fields of the document as they were.
C27_MissingTemplateSkipped ==
  (/\ scall.op = "fix_node_grid"
   /\ "template_node_uid" \in DOMAIN fields[wcall.node]
   /\ GridsFor(scall.kids0[GridList], fields[wcall.node]["uid"]) = {}
   /\ \A g \in get_grid(fields[wcall.node]["template_node_uid"], TRUE) : g.kind = "None")
    => /\ scall.kind = "ok"
       /\ kids = scall.kids0
       /\ fields = scall.fields0

\* C29: a fix_node_grid call for a node whose template grid exists appends,
\* when the grid list held no grid for the node's uid, exactly one grid with
\* that node_uid, which grid_index then finds; when the grid list held one
\* already, the call changes neither the lists nor the fields of the
\* document.  The grid list never holds two grids for one uid.
C29_FixIdempotent ==
  /\ (scall.op = "fix_node_grid"
      /\ Get(fields[wcall.node], "template_node_uid", "absent") = TemplateUid)
       => LET uid == fields[wcall.node]["uid"]
              before == scall.kids0[GridList]
          IN IF GridsFor(before, uid) = {}
             THEN /\ scall.kind = "ok"
                  /\ Len(kids[GridList]) = Len(before) + 1
                  /\ SubSeq(kids[GridList], 1, Len(before)) = before
                  /\ wcall.res = <<kids[GridList][Len(before) + 1]>>
                  /\ fields[wcall.res[1]]["node_uid"] = uid
                  /\ wcall.res[1] \notin Range(before)
                  /\ get_grid(uid, FALSE) = {[kind |-> "ok", res |-> wcall.res]}
             ELSE /\ scall.kind = "ok"
                  /\ kids = scall.kids0
                  /\ fields = scall.fields0
                  /\ \A k \in GridsFor(before, uid) :
                       get_grid(uid, FALSE) = {[kind |-> "ok", res |-> <<before[k]>>]}
  /\ \A i, j \in DOMAIN kids[GridList] :
       fields[kids[GridList][i]]["node_uid"] = fields[kids[GridList][j]]["node_uid"]
         => i = j

\* a later call for a node that an earlier call gave its grid: the node has
\* a template grid, the grid list held the node's grid before the call, and
\* that grid carries groups resolved to a variable
C29_Witness ==
  /\ scall.op = "fix_node_grid"
  /\ Get(fields[wcall.node], "template_node_uid", "absent") = TemplateUid
  /\ GridsFor(scall.kids0[GridList], fields[wcall.node]["uid"]) # {}
  /\ Len(kids[VarList]) > 0
  /\ Len(kids[GridList]) = 2

\* the objects and lists that the containers of S hold
Held(S) ==
  UNION {Range(kids[p]) : p \in {x \in S : x \in DOMAIN kids /\ is_json_container(x)}}

\* S and everything reachable from it through child edges
RECURSIVE ReachFrom(_)
ReachFrom(S) ==
  IF Held(S) \subseteq S THEN S ELSE ReachFrom(S \cup Held(S))

\* C28: after reparent_nodes has run to completion, every node of the
\* top-level list as it was before the pass is still reachable from the
\* document root, is held through exactly one edge (one position of one
\* container), and is not contained in itself.
C28_ReparentKeepsTree ==
  (scall.op = "reparent" /\ scall.kind = "ok") =>
    \A n \in Range(scall.kids0[NodeList]) :
      /\ n \in ReachFrom({Root})
      /\ Cardinality({e \in (DOMAIN kids) \X (1..Cardinality(DOMAIN kids)) :
                        /\ is_json_container(e[1])
                        /\ e[2] \in DOMAIN kids[e[1]]
                        /\ kids[e[1]][e[2]] = n}) = 1
      /\ n \notin ReachFrom(Held({n}))

\* C30: every locate call returns what the document holds at the path when
\* the call is made: the object, or None when an index or key of the path is
\* missing, also after filter_out has changed the node list.
C30_LocateIsCurrent ==
  [][(wcall'.op = "locate" /\ UNCHANGED <<kids, scall>>)
       => [kind |-> wcall'.kind, res |-> wcall'.res] = locate(wcall'.path)]_vars

====
